---- MODULE Spec2Model ----
(***************************************************************************)
(* A model of the Boulder web front end (wfe/web-front-end.go): the        *)
(* request handlers of WebFrontEndImpl, run by concurrent workers against  *)
(* the nonce service, the storage getter (SA) and the registration         *)
(* authority (RA).  A handler is split into steps at its calls to these    *)
(* shared collaborators; everything a handler does between two such calls  *)
(* belongs to one step.                                                    *)
(***************************************************************************)
EXTENDS Integers, Sequences, FiniteSets, TLC

\* ------------------------------------------------------------- bounds
MaxNonce == 3      \* nonces the registry issues (one per sendStandardHeaders)
MaxRegs == 4       \* registrations the SA holds
MaxAuthz == 2      \* authorizations the SA holds
MaxCerts == 2      \* certificates the SA holds

JunkNonce == MaxNonce + 2      \* a nonce value the registry never issued
Workers == {"w1", "w2"}          \* request-handling goroutines
\* A worker takes a new request while the registry has issued fewer nonces
\* than its cap; the second worker's cap is one higher, so that two requests
\* that each carry a nonce of their own can be in progress together.
NonceCap(w) == IF w = "w1" THEN MaxNonce ELSE MaxNonce + 1
Keys == {"k1", "k2", "k3"}           \* account / certificate public keys
NoKey == "nokey"
Methods == {"GET", "POST", "PUT"}
NumChallenges == 2               \* challenges the RA puts in an authorization

\* URL to the current subscriber agreement, and the agreement values a
\* payload can carry: none, the current one, another one.
SubscriberAgreementURL == "cur"
Agreements == {"", "cur", "old"}

\* ------------------------------------------------------ HTTP statuses
StatusOK == 200
StatusCreated == 201
StatusAccepted == 202
StatusBadRequest == 400
StatusForbidden == 403
StatusNotFound == 404
StatusMethodNotAllowed == 405
StatusConflict == 409
StatusPreconditionFailed == 412
StatusInternalServerError == 500
StatusNotImplemented == 501

MalformedProblem == "urn:acme:error:malformed"
UnauthorizedProblem == "urn:acme:error:unauthorized"
ServerInternalProblem == "urn:acme:error:serverInternal"

\* The error kinds of package core that statusCodeFromError switches on;
\* "Other" is any error of another type.
ErrKinds == {"MalformedRequestError", "NotSupportedError", "SyntaxError",
             "UnauthorizedError", "NotFoundError", "SignatureValidationError",
             "InternalServerError", "Other"}

statusCodeFromError(err) ==
  CASE err = "MalformedRequestError" -> StatusBadRequest
    [] err = "NotSupportedError" -> StatusNotImplemented
    [] err = "SyntaxError" -> StatusBadRequest
    [] err = "UnauthorizedError" -> StatusForbidden
    [] err = "NotFoundError" -> StatusNotFound
    [] err = "SignatureValidationError" -> StatusPreconditionFailed
    [] err = "InternalServerError" -> StatusInternalServerError
    [] OTHER -> StatusInternalServerError

\* ------------------------------------------------------------- state
VARIABLES
  nonceIssued,   \* nonce service: how many nonces it has issued (1..nonceIssued)
  nonceValid,    \* nonce service: the issued nonces not yet consumed
  delivered,     \* the nonces clients have got in the Replay-Nonce header of a response
  regs,          \* SA: registrations, regs[id] = [key, agreement]
  authzs,        \* SA: authorizations, authzs[a] = [regID, challenges]
  certs,         \* SA: certificates, certs[c] = [serial, key, regID, revoked]
  req,           \* req[w]: the request worker w is handling, and its response
  sent,          \* the request whose response the last step wrote (Idle: none)
  passed,        \* history: passed[n] = requests that passed the nonce check with n
  createdKey,    \* history: createdKey[id] = the key registration id was created with
  ocsp           \* the OCSP updater: its database, its run and the run's position

wfeVars == <<nonceIssued, nonceValid, delivered, regs, authzs, certs, req, sent, passed, createdKey>>
vars == <<wfeVars, ocsp>>

\* core.Registration{}: the zero value verifyPOST returns for an unknown key
NoReg == [id |-> 0, key |-> NoKey, agreement |-> ""]

\* core.Authorization{}, and an authorization the RA has just created
NoAuthz == [regID |-> 0, challenges |-> <<>>]
NewAuthz(regID) ==
  [regID |-> regID,
   challenges |-> [i \in 1..NumChallenges |-> [uri |-> i, status |-> "pending"]]]

\* a certificate's DER is its serial and its public key; a stored
\* certificate has an owner and a revocation status too
NoDER == [serial |-> 0, key |-> NoKey]
NoCert == [serial |-> 0, key |-> NoKey, regID |-> 0, revoked |-> FALSE]
DER(c) == [serial |-> c.serial, key |-> c.key]

\* Serial numbers and their texts, in hexadecimal digits.  LowDigits stands for
\* the 16 digits (64 bits) that serial.Rsh(serial, 64) drops and ShortLen for
\* the 16 digits of "%016x".  A serial is a sequential part and a low part;
\* the RA may hand back a certificate with any of these serials: the
\* sequential part is within ShortLen digits or one digit wider.
LowDigits == 1
ShortLen == 2
SerialLows == {1, 2}
SerialPrefixes == {0, 16^ShortLen}
Serials == {p * 16^LowDigits + l : p \in SerialPrefixes, l \in SerialLows}

HexDigits == <<"0", "1", "2", "3", "4", "5", "6", "7", "8", "9",
               "a", "b", "c", "d", "e", "f">>

\* the verb %x: the digits of n, lower case, without leading zeros
RECURSIVE Hex(_)
Hex(n) ==
  IF n < 16 THEN <<HexDigits[n + 1]>>
  ELSE Append(Hex(n \div 16), HexDigits[(n % 16) + 1])

\* the flag 0 and a width: zeros on the left up to the width, and nothing
\* taken away from a text that is wider
RECURSIVE ZeroPad(_, _)
ZeroPad(text, width) ==
  IF Len(text) >= width THEN text ELSE ZeroPad(<<"0">> \o text, width)

\* serial.Rsh(serial, 64)
Rsh(serial) == serial \div (16^LowDigits)

\* fmt.Sprintf("%016x", serial.Rsh(serial, 64))
ShortSerial_Truncated(serial) ==
  ZeroPad(Hex(Rsh(serial) % (16^ShortLen)), ShortLen)

ShortSerial(serial) == ZeroPad(Hex(Rsh(serial)), ShortLen)

\* core.SerialToString: "%032x", the key the SA stores a certificate under
SerialToString(serial) == ZeroPad(Hex(serial), ShortLen + LowDigits)

\* a response under construction: headers, status, body, and whether sendError
\* wrote an audit record for it
NoLoc == [base |-> "", id |-> 0]
NoResp == [nonce |-> 0, cors |-> "", status |-> 0, ptype |-> "", detail |-> "",
           ctype |-> "", allow |-> {}, location |-> NoLoc, bodyID |-> 0,
           bodyRegID |-> 0, shortSerial |-> <<>>, audit |-> FALSE]

\* what verifyPOST saw in the envelope (kept for the claims about it)
NoEnv == [err |-> "", oneSig |-> FALSE, sigOK |-> FALSE, nonce |-> 0,
          nonceOK |-> FALSE, replay |-> FALSE]

Idle == [pc |-> "idle", handler |-> "none", method |-> "none", issued |-> 0,
         env |-> NoEnv, verified |-> FALSE, key |-> NoKey, reg |-> NoReg,
         pathID |-> [ok |-> FALSE, val |-> 0],
         payloadKey |-> NoKey, arg |-> NoReg, authzID |-> 0, authz |-> NoAuthz, query |-> 0, chall |-> 0,
         der |-> NoDER, cert |-> NoCert, certPath |-> <<>>,
         raCalls |-> <<>>, raErr |-> "", resp |-> NoResp]

\* The nonce service is new with the front end.  The SA is a database that
\* outlives it; at the start it holds what earlier requests stored: the
\* registrations of k1 and k2, which accepted the agreement, and an
\* authorization and a certificate of the first (the certificate's own key is
\* k3, which no registration is bound to).
InitFrontEnd ==
  /\ nonceIssued = 0
  /\ nonceValid = {}
  /\ delivered = {}
  /\ regs = << [key |-> "k1", agreement |-> SubscriberAgreementURL],
               [key |-> "k2", agreement |-> SubscriberAgreementURL] >>
  /\ authzs = << NewAuthz(1) >>
  /\ certs = << [serial |-> 1, key |-> "k3", regID |-> 1, revoked |-> FALSE] >>
  /\ req = [w \in Workers |-> Idle]
  /\ sent = Idle
  /\ passed = [n \in 1..JunkNonce |-> 0]
  /\ createdKey = <<"k1", "k2">>

\* the front end's specifications leave the OCSP updater out: it has not run
NoRun == [pc |-> "off", lastUpdated |-> << >>, expired |-> {}, responses |-> {},
          selected |-> << >>, i |-> 1, outcomes |-> << >>, err |-> ""]

Init == InitFrontEnd /\ ocsp = NoRun

\* ------------------------------------------------- response formatting
ProblemTypeOf(code) ==
  CASE code = StatusForbidden -> UnauthorizedProblem
    [] code \in {StatusConflict, StatusMethodNotAllowed, StatusNotFound,
                 StatusBadRequest} -> MalformedProblem
    [] code = StatusInternalServerError -> ServerInternalProblem
    [] OTHER -> ""

\* sendError: the problem document, its audit record and the status
\* the audit of sendError: only a server-internal problem is audited
Audited_Always(ptype) == TRUE

Audited(ptype) == ptype = ServerInternalProblem

sendError(resp, details, code) ==
  [resp EXCEPT !.status = code, !.ptype = ProblemTypeOf(code),
               !.detail = details, !.ctype = "application/problem+json",
               !.audit = Audited(ProblemTypeOf(code))]

sendAllow(resp, methods) == [resp EXCEPT !.allow = methods]

Done(r, resp) == [r EXCEPT !.pc = "done", !.resp = resp]

\* A step of worker w leaves its request as r: a finished request is sent
\* and the worker is free again.
Emit(w, r) ==
  /\ req' = [req EXCEPT ![w] = IF r.pc = "done" THEN Idle ELSE r]
  /\ sent' = IF r.pc = "done" THEN r ELSE Idle
  /\ delivered' = IF r.pc = "done" THEN delivered \cup {r.resp.nonce} ELSE delivered
  /\ ocsp' = ocsp   \* no step of the front end touches the OCSP updater

MethodNotAllowed(r, methods) ==
  Done(r, sendError(sendAllow(r.resp, methods), "Method not allowed",
                    StatusMethodNotAllowed))

\* ------------------------------------------------------- nonce service
\* core.NonceService: Nonce() issues a nonce never issued before and records
\* it as valid; Valid(n) says whether n is valid and consumes it, atomically.
NextNonce == nonceIssued + 1

NonceIssue ==
  /\ nonceIssued' = NextNonce
  /\ nonceValid' = nonceValid \cup {NextNonce}

NonceValid(n) == n \in nonceValid

NonceConsume(n) == nonceValid' = nonceValid \ {n}

sendStandardHeaders_NoNonce(resp) == [resp EXCEPT !.cors = "*"]

sendStandardHeaders(resp) == [resp EXCEPT !.nonce = NextNonce, !.cors = "*"]

\* a handler's first lines: the standard headers on a new response
Begin(h, m) ==
  [Idle EXCEPT !.handler = h, !.method = m, !.issued = 1,
               !.resp = sendStandardHeaders(NoResp)]

Free(w) == req[w].pc = "idle" /\ nonceIssued < NonceCap(w)

\* ------------------------------------------------------------- Index
\* Index: the identification page; http.NotFound for any other path
Index(w) ==
  /\ Free(w)
  /\ \E m \in Methods, atRoot \in BOOLEAN :
       LET r == Begin("Index", m) IN
       Emit(w,
         IF ~atRoot
           THEN Done(r, [r.resp EXCEPT !.status = StatusNotFound,
                                        !.ctype = "text/plain",
                                        !.detail = "404 page not found"])
         ELSE IF m # "GET" THEN MethodNotAllowed(r, {"GET"})
         ELSE Done(r, [r.resp EXCEPT !.status = StatusOK, !.ctype = "text/html"]))
  /\ NonceIssue
  /\ UNCHANGED <<regs, authzs, certs, passed, createdKey>>

\* Terms, Issuer, BuildID: GET only, a fixed body
Static(w, h, ctype) ==
  /\ Free(w)
  /\ \E m \in Methods :
       LET r == Begin(h, m) IN
       Emit(w,
         IF m # "GET" THEN MethodNotAllowed(r, {"GET"})
         ELSE Done(r, [r.resp EXCEPT !.status = StatusOK, !.ctype = ctype]))
  /\ NonceIssue
  /\ UNCHANGED <<regs, authzs, certs, passed, createdKey>>

Terms(w) == Static(w, "Terms", "text/plain")
Issuer(w) == Static(w, "Issuer", "application/pkix-cert")
BuildID(w) == Static(w, "BuildID", "text/plain")

\* the first lines of the POST-only handlers: headers, then the method check
PostOnly(w, h) ==
  /\ Free(w)
  /\ \E m \in Methods :
       LET r == Begin(h, m) IN
       Emit(w,
         IF m # "POST" THEN MethodNotAllowed(r, {"POST"})
         ELSE [r EXCEPT !.pc = "verify"])
  /\ NonceIssue
  /\ UNCHANGED <<regs, authzs, certs, passed, createdKey>>

\* ---------------------------------------------------------- verifyPOST
\* The request bodies a client can send: no body, bytes that are no JWS, or a
\* JWS with nsigs signatures whose first one carries `key`, verifies or not,
\* and has `nonce` in its protected header: none (0), one that a response
\* delivered, or a value of the client's own making.
\* (fields that verifyPOST does not get to read are left at one value)
ClientNonces == {0, JunkNonce} \cup delivered

Envelopes ==
  { [body |-> b, nsigs |-> 0, sigOK |-> FALSE, key |-> NoKey, nonce |-> 0] :
      b \in {"nil", "garbage"} }
  \cup [body : {"jws"}, nsigs : {0, 2}, sigOK : {FALSE}, key : {NoKey}, nonce : {0}]
  \cup [body : {"jws"}, nsigs : {1}, sigOK : {FALSE}, key : {NoKey},
        nonce : ClientNonces]
  \cup [body : {"jws"}, nsigs : {1}, sigOK : {TRUE}, key : Keys,
        nonce : ClientNonces]

\* verifyPOST, the anti-replay check: the nonce is in the protected header
\* and the nonce service says it is valid
NonceCheck_Skipped(nonce) ==
  IF nonce = 0 THEN "JWS has no anti-replay nonce" ELSE "ok"

NonceCheck(nonce) ==
  IF nonce = 0 THEN "JWS has no anti-replay nonce"
  ELSE IF ~NonceValid(nonce) THEN "JWS has invalid anti-replay nonce"
  ELSE "ok"

\* verifyPOST up to the nonce check: the error it returns, or "ok"
verifyEnvelope(e) ==
  IF e.body = "nil" THEN "No body on POST"
  ELSE IF e.body = "garbage" THEN "Parse error reading JWS"
  ELSE IF e.nsigs > 1 THEN "Too many signatures on POST"
  ELSE IF e.nsigs = 0 THEN "POST not signed"
  ELSE IF ~e.sigOK THEN "JWS verification error"
  ELSE NonceCheck(e.nonce)

\* whether verifyEnvelope gets as far as asking the nonce service
ReachesValid_NoSigCheck(e) == e.body = "jws" /\ e.nonce # 0

ReachesValid(e) ==
  e.body = "jws" /\ e.nsigs = 1 /\ e.sigOK /\ e.nonce # 0

VerifyFailed_NoReturn(r) == [r EXCEPT !.pc = "ra"]

VerifyFailed(r) ==
  Done(r, sendError(r.resp, "Unable to read/verify body", StatusBadRequest))

\* Every POST handler's call of verifyPOST, up to and including
\* nonceService.Valid; on an error every handler answers 400.
VerifyPOST(w) ==
  /\ req[w].pc = "verify"
  /\ \E e \in Envelopes :
       LET err == verifyEnvelope(e)
           seen == [err |-> IF err = "ok" THEN "" ELSE err,
                    oneSig |-> (e.nsigs = 1),
                    sigOK |-> e.sigOK,
                    nonce |-> e.nonce,
                    nonceOK |-> (e.nonce \in nonceValid),
                    replay |-> (e.sigOK /\ e.nonce # 0 /\ passed[e.nonce] > 0)]
           r == [req[w] EXCEPT !.env = seen]
       IN
       /\ Emit(w,
            IF err = "ok" THEN [r EXCEPT !.pc = "lookup", !.key = e.key]
            ELSE VerifyFailed(r))
       /\ IF ReachesValid(e) THEN NonceConsume(e.nonce)
                              ELSE UNCHANGED nonceValid
       /\ passed' = IF err = "ok" THEN [passed EXCEPT ![e.nonce] = @ + 1]
                                  ELSE passed
  /\ UNCHANGED <<nonceIssued, regs, authzs, certs, createdKey>>

\* ------------------------------------------------------------ storage
\* SA.GetRegistrationByKey: the registration bound to the key, or the zero
\* Registration with sql.ErrNoRows (id 0) when there is none
GetRegistrationByKey(k) ==
  LET ids == {id \in DOMAIN regs : regs[id].key = k} IN
  IF ids = {} THEN NoReg
  ELSE LET id == CHOOSE i \in ids : \A j \in ids : i <= j IN
       [id |-> id, key |-> regs[id].key, agreement |-> regs[id].agreement]

\* verifyPOST's last lines: the registration of the verified key; with
\* regCheck a failed lookup fails the verification
LookupFailed_Never(key, regCheck) == FALSE

LookupFailed(key, regCheck) == regCheck /\ GetRegistrationByKey(key).id = 0

NoRegistration(r) ==
  Done(r, sendError(r.resp, "No registration exists matching provided key",
                    StatusForbidden))

\* the bodies json.Unmarshal is given: it fails, or yields these fields
RegPayloads ==
  {[jsonOK |-> FALSE, agreement |-> "", key |-> NoKey]}
  \cup [jsonOK : {TRUE}, agreement : Agreements, key : Keys]

\* json.Unmarshal(body, &init): the registration parsed from the payload
ParsedRegistration(p) == [id |-> 0, key |-> p.key, agreement |-> p.agreement]

\* "len(init.Agreement) > 0 && init.Agreement != wfe.SubscriberAgreementURL"
AgreementMismatch_Never(agreement) == FALSE

AgreementMismatch(agreement) ==
  agreement # "" /\ agreement # SubscriberAgreementURL

\* an RA call returns an error of some kind, or "ok"
RAResults == ErrKinds \cup {"ok"}

\* ---------------------------------------------------- NewRegistration
NewRegistration(w) == PostOnly(w, "NewRegistration")

\* verifyPOST(request, false): the lookup result is not used
NewRegistration_Lookup(w) ==
  /\ req[w].pc = "lookup" /\ req[w].handler = "NewRegistration"
  /\ Emit(w,
       [req[w] EXCEPT !.pc = "checkKey", !.verified = TRUE,
                      !.reg = GetRegistrationByKey(req[w].key)])
  /\ UNCHANGED <<nonceIssued, nonceValid, regs, authzs, certs, passed, createdKey>>

\* the handler's own SA.GetRegistrationByKey, then the payload checks
KeyInUse_Never(key) == FALSE

KeyInUse(key) == GetRegistrationByKey(key).id # 0

\* init.Key = *key: the draft handed to the RA
NewRegistrationDraft_PayloadKey(p, key) ==
  [id |-> 0, key |-> p.key, agreement |-> p.agreement]

NewRegistrationDraft(p, key) == [id |-> 0, key |-> key, agreement |-> p.agreement]

NewRegistration_CheckKey(w) ==
  /\ req[w].pc = "checkKey"
  /\ \E p \in RegPayloads :
       LET r == req[w] IN
       Emit(w,
         IF KeyInUse(r.key)
           THEN Done(r, sendError(r.resp, "Registration key is already in use",
                                  StatusConflict))
         ELSE IF ~p.jsonOK
           THEN Done(r, sendError(r.resp, "Error unmarshaling JSON", StatusBadRequest))
         ELSE IF AgreementMismatch(p.agreement)
           THEN Done([r EXCEPT !.arg = ParsedRegistration(p)],
                     sendError(r.resp, "Provided agreement URL does not match current agreement URL",
                               StatusBadRequest))
         ELSE [r EXCEPT !.pc = "ra", !.payloadKey = p.key,
                        !.arg = NewRegistrationDraft(p, r.key)])
  /\ UNCHANGED <<nonceIssued, nonceValid, regs, authzs, certs, passed, createdKey>>

\* RA.NewRegistration(init): the RA stores the draft under the next id
RA_NewRegistration(init) ==
  /\ regs' = Append(regs, [key |-> init.key, agreement |-> init.agreement])
  /\ createdKey' = Append(createdKey, init.key)

NewRegistration_RA(w) ==
  /\ req[w].pc = "ra" /\ req[w].handler = "NewRegistration"
  /\ \E res \in RAResults, marshalOK \in BOOLEAN :
       LET r == [req[w] EXCEPT !.raCalls = Append(@, "NewRegistration"),
                                !.raErr = res]
           id == Len(regs) + 1
       IN
       IF res # "ok"
         THEN /\ Emit(w, Done(r, sendError(r.resp, "Error creating new registration",
                                           statusCodeFromError(res))))
              /\ UNCHANGED <<regs, createdKey>>
         ELSE /\ Len(regs) < MaxRegs
              /\ RA_NewRegistration(r.arg)
              /\ Emit(w,
                   IF ~marshalOK
                     THEN Done(r, sendError(r.resp, "Error marshaling registration",
                                            StatusInternalServerError))
                   ELSE Done(r, [r.resp EXCEPT
                          !.location = [base |-> "RegBase", id |-> id],
                          !.ctype = "application/json",
                          !.status = StatusCreated,
                          !.bodyID = id]))
  /\ UNCHANGED <<nonceIssued, nonceValid, authzs, certs, passed>>

\* ------------------------------------------------------- Registration
Registration(w) == PostOnly(w, "Registration")

\* The characters of the path after RegPath, and strconv.ParseInt(s, 10, 64)
\* on the last slash-separated token: an optional sign and then one or more
\* digits; an error for anything else.
Digits == <<"0", "1", "2", "3", "4", "5", "6", "7", "8", "9">>
IsDigit(c) == \E d \in 1..10 : Digits[d] = c
DigitVal(c) == (CHOOSE d \in 1..10 : Digits[d] = c) - 1
PathChars == {"/", "-", "x"} \cup {Digits[d] : d \in 1..MaxRegs}
MaxPathLen == 2
PathTails == UNION {[1..n -> PathChars] : n \in 0..MaxPathLen}

\* parseIDFromPath: what follows the last slash
RECURSIVE parseIDFromPath(_)
parseIDFromPath(s) ==
  IF s = <<>> THEN <<>>
  ELSE IF \E i \in 1..Len(s) : s[i] = "/" THEN parseIDFromPath(Tail(s))
  ELSE s

IsNumber(s) == s # <<>> /\ \A i \in 1..Len(s) : IsDigit(s[i])

RECURSIVE DigitsVal(_, _)
DigitsVal(s, acc) ==
  IF s = <<>> THEN acc ELSE DigitsVal(Tail(s), acc * 10 + DigitVal(Head(s)))

ParseInt(s) ==
  IF s # <<>> /\ Head(s) \in {"-", "+"}
    THEN IF IsNumber(Tail(s))
           THEN [ok |-> TRUE,
                 val |-> IF Head(s) = "-" THEN 0 - DigitsVal(Tail(s), 0)
                                          ELSE DigitsVal(Tail(s), 0)]
           ELSE [ok |-> FALSE, val |-> 0]
  ELSE IF IsNumber(s) THEN [ok |-> TRUE, val |-> DigitsVal(s, 0)]
  ELSE [ok |-> FALSE, val |-> 0]

\* The handler's checks of the path id against the signer's registration:
\* the status it answers with, or 0 when the request may go on.
PathIDCheck_NoOwnerCheck(tail, currReg) ==
  LET id == ParseInt(parseIDFromPath(tail)) IN
  IF ~id.ok THEN StatusBadRequest
  ELSE IF id.val <= 0 THEN StatusBadRequest
  ELSE 0

PathIDCheck(tail, currReg) ==
  LET id == ParseInt(parseIDFromPath(tail)) IN
  IF ~id.ok THEN StatusBadRequest
  ELSE IF id.val <= 0 THEN StatusBadRequest
  ELSE IF id.val # currReg.id THEN StatusForbidden
  ELSE 0

PathIDDetail(tail, currReg) ==
  LET id == ParseInt(parseIDFromPath(tail)) IN
  IF ~id.ok THEN "Registration ID must be an integer"
  ELSE IF id.val <= 0 THEN "Registration ID must be a positive non-zero integer"
  ELSE "Request signing key did not match registration key"

\* update.Key = currReg.Key: the update handed to the RA
RegistrationUpdate_PayloadKey(p, currReg) ==
  [id |-> 0, key |-> p.key, agreement |-> p.agreement]

RegistrationUpdate(p, currReg) ==
  [id |-> 0, key |-> currReg.key, agreement |-> p.agreement]

\* verifyPOST(request, true)'s lookup, then the checks up to the RA call
Registration_Lookup(w) ==
  /\ req[w].pc = "lookup" /\ req[w].handler = "Registration"
  /\ LET r0 == req[w]
         currReg == GetRegistrationByKey(r0.key)
     IN
     IF LookupFailed(r0.key, TRUE) THEN Emit(w, NoRegistration(r0))
     ELSE \E tail \in PathTails :
       LET r == [r0 EXCEPT !.verified = TRUE, !.reg = currReg,
                           !.pathID = ParseInt(parseIDFromPath(tail))]
       IN
       IF PathIDCheck(tail, currReg) # 0
         THEN Emit(w, Done(r, sendError(r.resp, PathIDDetail(tail, currReg),
                                        PathIDCheck(tail, currReg))))
       ELSE \E p \in RegPayloads :
         Emit(w,
           IF ~p.jsonOK
             THEN Done(r, sendError(r.resp, "Error unmarshaling registration",
                                    StatusBadRequest))
           ELSE IF AgreementMismatch(p.agreement)
             THEN Done([r EXCEPT !.arg = ParsedRegistration(p)],
                       sendError(r.resp, "Provided agreement URL does not match current agreement URL",
                                 StatusBadRequest))
           ELSE [r EXCEPT !.pc = "ra", !.payloadKey = p.key,
                          !.arg = RegistrationUpdate(p, currReg)])
  /\ UNCHANGED <<nonceIssued, nonceValid, regs, authzs, certs, passed, createdKey>>

\* RA.UpdateRegistration(base, update): the RA stores the update's key, and
\* its agreement when it has one
RA_UpdateRegistration(base, update) ==
  regs' = [regs EXCEPT ![base.id] =
            [key |-> update.key,
             agreement |-> IF update.agreement # "" THEN update.agreement
                           ELSE base.agreement]]

Registration_RA(w) ==
  /\ req[w].pc = "ra" /\ req[w].handler = "Registration"
  /\ \E res \in RAResults, marshalOK \in BOOLEAN :
       LET r == [req[w] EXCEPT !.raCalls = Append(@, "UpdateRegistration"),
                                !.raErr = res] IN
       IF res # "ok"
         THEN /\ Emit(w,
                   Done(r, sendError(r.resp, "Unable to update registration",
                                     statusCodeFromError(res))))
              /\ UNCHANGED regs
         ELSE /\ RA_UpdateRegistration(r.reg, r.arg)
              /\ Emit(w,
                   IF ~marshalOK
                     THEN Done(r, sendError(r.resp, "Failed to marshal registration",
                                            StatusInternalServerError))
                   ELSE Done(r, [r.resp EXCEPT !.ctype = "application/json",
                                               !.status = StatusAccepted,
                                               !.bodyID = r.reg.id]))
  /\ UNCHANGED <<nonceIssued, nonceValid, authzs, certs, passed, createdKey>>

\* --------------------------------------------------- NewAuthorization
NewAuthorization(w) == PostOnly(w, "NewAuthorization")

MustAgree(r) ==
  Done(r, sendError(r.resp, "Must agree to subscriber agreement before any further actions",
                    StatusForbidden))

\* "Any version of the agreement is acceptable here"
HasAgreed_Always(reg) == TRUE

HasAgreed(reg) == reg.agreement # ""

NewAuthorization_Lookup(w) ==
  /\ req[w].pc = "lookup" /\ req[w].handler = "NewAuthorization"
  /\ \E jsonOK \in BOOLEAN :
       LET r0 == req[w]
           currReg == GetRegistrationByKey(r0.key)
           r == [r0 EXCEPT !.verified = TRUE, !.reg = currReg]
       IN
       Emit(w,
         IF LookupFailed(r0.key, TRUE) THEN NoRegistration(r0)
         ELSE IF ~HasAgreed(currReg) THEN MustAgree(r)
         ELSE IF ~jsonOK
           THEN Done(r, sendError(r.resp, "Error unmarshaling JSON", StatusBadRequest))
         ELSE [r EXCEPT !.pc = "ra"])
  /\ UNCHANGED <<nonceIssued, nonceValid, regs, authzs, certs, passed, createdKey>>

\* "blow away the ID and RegID before serializing": the handler's copy of the
\* authorization, as it is marshalled into the body
BlankAuthz_Keep(id, regID) == [id |-> id, regID |-> regID]

BlankAuthz(id, regID) == [id |-> 0, regID |-> 0]

\* RA.NewAuthorization(init, regID): the RA stores a new authorization of
\* the registration, with its challenges, under the next id
RA_NewAuthorization(regID) == authzs' = Append(authzs, NewAuthz(regID))

NewAuthorization_RA(w) ==
  /\ req[w].pc = "ra" /\ req[w].handler = "NewAuthorization"
  /\ \E res \in RAResults, marshalOK \in BOOLEAN :
       LET r == [req[w] EXCEPT !.raCalls = Append(@, "NewAuthorization"),
                                !.raErr = res]
           id == Len(authzs) + 1
       IN
       IF res # "ok"
         THEN /\ Emit(w, Done(r, sendError(r.resp, "Error creating new authz",
                                           statusCodeFromError(res))))
              /\ UNCHANGED authzs
         ELSE /\ Len(authzs) < MaxAuthz
              /\ RA_NewAuthorization(r.reg.id)
              /\ Emit(w,
                   IF ~marshalOK
                     THEN Done(r, sendError(r.resp, "Error marshaling authz",
                                            StatusInternalServerError))
                   ELSE Done(r, [r.resp EXCEPT
                          !.location = [base |-> "AuthzBase", id |-> id],
                          !.ctype = "application/json",
                          !.status = StatusCreated,
                          !.bodyID = BlankAuthz(id, r.reg.id).id,
                          !.bodyRegID = BlankAuthz(id, r.reg.id).regID]))
  /\ UNCHANGED <<nonceIssued, nonceValid, regs, certs, passed, createdKey>>

\* ----------------------------------------------------- NewCertificate
NewCertificate(w) == PostOnly(w, "NewCertificate")

NewCertificate_Lookup(w) ==
  /\ req[w].pc = "lookup" /\ req[w].handler = "NewCertificate"
  /\ \E jsonOK \in BOOLEAN :
       LET r0 == req[w]
           reg == GetRegistrationByKey(r0.key)
           r == [r0 EXCEPT !.verified = TRUE, !.reg = reg]
       IN
       Emit(w,
         IF LookupFailed(r0.key, TRUE) THEN NoRegistration(r0)
         ELSE IF ~HasAgreed(reg) THEN MustAgree(r)
         ELSE IF ~jsonOK
           THEN Done(r, sendError(r.resp, "Error unmarshaling certificate request",
                                  StatusBadRequest))
         ELSE [r EXCEPT !.pc = "ra"])
  /\ UNCHANGED <<nonceIssued, nonceValid, regs, authzs, certs, passed, createdKey>>

\* RA.NewCertificate(init, regID): the RA stores a certificate of the
\* registration, for the key of the request, under a serial not in use
FreshSerials == {n \in Serials : \A c \in DOMAIN certs : certs[c].serial # n}

RA_NewCertificate(serial, key, regID) ==
  certs' = Append(certs, [serial |-> serial, key |-> key,
                          regID |-> regID, revoked |-> FALSE])

NewCertificate_RA(w) ==
  /\ req[w].pc = "ra" /\ req[w].handler = "NewCertificate"
  /\ \E res \in RAResults, parseOK \in BOOLEAN, k \in Keys, serial \in FreshSerials :
       LET r == [req[w] EXCEPT !.raCalls = Append(@, "NewCertificate"),
                                !.raErr = res] IN
       IF res # "ok"
         THEN /\ Emit(w, Done(r, sendError(r.resp, "Error creating new cert",
                                           statusCodeFromError(res))))
              /\ UNCHANGED certs
         ELSE /\ Len(certs) < MaxCerts
              /\ RA_NewCertificate(serial, k, r.reg.id)
              /\ Emit(w,
                   IF ~parseOK
                     THEN Done([r EXCEPT !.cert = [serial |-> serial, key |-> k,
                                              regID |-> r.reg.id, revoked |-> FALSE]],
                               sendError(r.resp, "Error creating new cert",
                                         StatusBadRequest))
                   ELSE Done([r EXCEPT !.cert = [serial |-> serial, key |-> k,
                                              regID |-> r.reg.id, revoked |-> FALSE]],
                             [r.resp EXCEPT
                          !.location = [base |-> "CertBase", id |-> 0],
                          !.shortSerial = ShortSerial(serial),
                          !.ctype = "application/pkix-cert",
                          !.status = StatusCreated,
                          !.bodyID = serial]))
  /\ UNCHANGED <<nonceIssued, nonceValid, regs, authzs, passed, createdKey>>

\* --------------------------------------------------------- Certificate
\* allHex: "^[0-9a-f]+$"
allHex(text) ==
  text # <<>> /\ \A i \in 1..Len(text) : \E d \in 1..16 : HexDigits[d] = text[i]

\* "len(serial) != 16 || !allHex.Match([]byte(serial))"
BadShortSerial_AnyLength(serial) == ~allHex(serial)

BadShortSerial(serial) == Len(serial) # ShortLen \/ ~allHex(serial)

\* what a request's path has after CertPath: the short serial of a
\* certificate, or a text that is empty, too short, upper case, or not hex
CertPaths ==
  {ShortSerial(n) : n \in Serials}
    \cup {<<>>, [i \in 1..(ShortLen - 1) |-> "a"],
          [i \in 1..ShortLen |-> "A"], [i \in 1..ShortLen |-> "g"]}

\* SA.GetCertificateByShortSerial(shortSerial): the stored certificates whose
\* serial text begins with shortSerial; an error when there is none, and
\* "gorp: multiple rows returned" when there are more than one
ShortSerialMatches(shortSerial) ==
  {c \in DOMAIN certs :
     SubSeq(SerialToString(certs[c].serial), 1, Len(shortSerial)) = shortSerial}

GetCertificateByShortSerial(shortSerial) ==
  LET hits == ShortSerialMatches(shortSerial) IN
  IF hits = {} THEN [err |-> "no rows", cert |-> NoCert]
  ELSE IF Cardinality(hits) > 1 THEN [err |-> "gorp: multiple rows returned", cert |-> NoCert]
  ELSE [err |-> "", cert |-> certs[CHOOSE c \in hits : TRUE]]

MultipleRows_NotFound(err) == FALSE

MultipleRows(err) == err = "gorp: multiple rows returned"

\* Certificate, case "GET", from the path check on
ReadCertificate(r, serial) ==
  LET got == GetCertificateByShortSerial(serial) IN
  IF BadShortSerial(serial)
    THEN Done(r, sendError(r.resp, "Not found", StatusNotFound))
  ELSE IF got.err # ""
    THEN IF MultipleRows(got.err)
           THEN Done(r, sendError(r.resp, "Multiple certificates with same short serial",
                                  StatusConflict))
           ELSE Done(r, sendError(r.resp, "Not found", StatusNotFound))
  ELSE Done(r, [r.resp EXCEPT !.ctype = "application/pkix-cert",
                              !.status = StatusOK,
                              !.bodyID = got.cert.serial])

Certificate(w) ==
  /\ Free(w)
  /\ \E m \in Methods, serial \in CertPaths :
       LET r == [Begin("Certificate", m) EXCEPT !.certPath = serial] IN
       Emit(w,
         IF m \notin {"GET", "POST"} THEN MethodNotAllowed(r, {"GET", "POST"})
         ELSE IF m = "GET" THEN ReadCertificate(r, serial)
         ELSE Done(r, sendError(r.resp, "Not yet supported", StatusNotFound)))
  /\ NonceIssue
  /\ UNCHANGED <<regs, authzs, certs, passed, createdKey>>

\* ------------------------------------------- Authorization, challenge
\* Authorization's first lines; a request with a query goes on to challenge,
\* which sends the standard headers once more, so two nonces must be left
Authorization(w) ==
  /\ req[w].pc = "idle" /\ nonceIssued + 1 < NonceCap(w)
  /\ \E m \in Methods :
       LET r == Begin("Authorization", m) IN
       Emit(w,
         IF m \notin {"GET", "POST"} THEN MethodNotAllowed(r, {"GET", "POST"})
         ELSE [r EXCEPT !.pc = "getAuthz"])
  /\ NonceIssue
  /\ UNCHANGED <<regs, authzs, certs, passed, createdKey>>

\* challenge's loop over authz.Challenges: the index of the first challenge
\* whose URI has the request's path and query, 0 when there is none
FindChallenge_NoCompare(authz, samePath, query) ==
  IF authz.challenges = <<>> THEN 0 ELSE 1

FindChallenge_PathOnly(authz, samePath, query) ==
  IF samePath /\ authz.challenges # <<>> THEN 1 ELSE 0

FindChallenge(authz, samePath, query) ==
  LET hits == {i \in DOMAIN authz.challenges :
                 samePath /\ authz.challenges[i].uri = query} IN
  IF hits = {} THEN 0 ELSE CHOOSE i \in hits : \A j \in hits : i <= j

\* SA.GetAuthorization(id), then the plain read of the authorization or,
\* with a query, challenge up to its verifyPOST.  id 0: no such
\* authorization; query 0: no query.
Authorization_Get(w) ==
  /\ req[w].pc = "getAuthz"
  /\ \E id \in 0..MaxAuthz, query \in 0..(NumChallenges + 1),
        samePath \in BOOLEAN, marshalOK \in BOOLEAN :
       LET r0 == req[w]
           found == id \in DOMAIN authzs
           authz == IF found THEN authzs[id] ELSE NoAuthz
           r == [r0 EXCEPT !.authzID = id, !.authz = authz, !.query = query]
           \* challenge(authz, response, request)
           c == [r EXCEPT !.issued = @ + 1, !.resp = sendStandardHeaders(@)]
           i == FindChallenge(authz, samePath, query)
       IN
       IF ~found
         THEN /\ Emit(w, Done([r0 EXCEPT !.query = query],
                              sendError(r0.resp, "Unable to find authorization",
                                        StatusNotFound)))
              /\ UNCHANGED <<nonceIssued, nonceValid>>
       ELSE IF query # 0
         THEN /\ NonceIssue
              /\ Emit(w,
                   IF i = 0
                     THEN Done(c, sendError(c.resp, "Unable to find challenge",
                                            StatusNotFound))
                   ELSE IF c.method = "GET"
                     THEN IF ~marshalOK
                            THEN Done([c EXCEPT !.chall = i],
                                      sendError(c.resp, "Failed to marshal challenge",
                                                StatusInternalServerError))
                            ELSE Done([c EXCEPT !.chall = i],
                                      [c.resp EXCEPT
                                         !.location = [base |-> "Challenge", id |-> authz.challenges[i].uri],
                                         !.ctype = "application/json",
                                         !.status = StatusAccepted])
                   ELSE [c EXCEPT !.pc = "verify", !.handler = "challenge",
                                  !.chall = i])
       ELSE /\ UNCHANGED <<nonceIssued, nonceValid>>
            /\ Emit(w,
                 IF r.method = "GET"
                   THEN IF ~marshalOK
                          THEN Done(r, sendError(r.resp, "Failed to marshal authz",
                                                 StatusInternalServerError))
                          ELSE Done(r, [r.resp EXCEPT !.ctype = "application/json",
                                                      !.status = StatusOK,
                                                      !.bodyID = BlankAuthz(id, authz.regID).id,
                                                      !.bodyRegID = BlankAuthz(id, authz.regID).regID])
                 ELSE MethodNotAllowed(r, {"GET", "POST"}))
  /\ UNCHANGED <<regs, authzs, certs, passed, createdKey>>

\* challenge, case "POST": the check that the signer owns the authorization
OwnsAuthorization_Always(currReg, authz) == TRUE

OwnsAuthorization(currReg, authz) == currReg.id = authz.regID

challenge_Lookup(w) ==
  /\ req[w].pc = "lookup" /\ req[w].handler = "challenge"
  /\ \E jsonOK \in BOOLEAN :
       LET r0 == req[w]
           currReg == GetRegistrationByKey(r0.key)
           r == [r0 EXCEPT !.verified = TRUE, !.reg = currReg]
       IN
       Emit(w,
         IF LookupFailed(r0.key, TRUE) THEN NoRegistration(r0)
         ELSE IF ~HasAgreed(currReg) THEN MustAgree(r)
         ELSE IF ~OwnsAuthorization(currReg, r.authz)
           THEN Done(r, sendError(r.resp, "User registration ID doesn't match registration ID in authorization",
                                  StatusForbidden))
         ELSE IF ~jsonOK
           THEN Done(r, sendError(r.resp, "Error unmarshaling challenge response",
                                  StatusBadRequest))
         ELSE [r EXCEPT !.pc = "ra"])
  /\ UNCHANGED <<nonceIssued, nonceValid, regs, authzs, certs, passed, createdKey>>

\* RA.UpdateAuthorization(authz, challengeIndex, response): the RA records
\* the response in that challenge of the authorization it was given, stores
\* the authorization and returns it
UpdatedAuthz(authz, challengeIndex) ==
  [authz EXCEPT !.challenges[challengeIndex].status = "answered"]

\* what RA.UpdateAuthorization returns: the front end relies on nothing
\* about it; its list of challenges may be shorter than the one it was given
\* ("assumption: UpdateAuthorization does not modify order of challenges")
ReturnedAuthz(authz, n) == [authz EXCEPT !.challenges = SubSeq(@, 1, n)]

\* "updatedAuthz.Challenges[challengeIndex]": an index past the end of the
\* slice is a run-time panic; the handler writes no response
Panic(r) == [r EXCEPT !.pc = "panic"]

challenge_RA(w) ==
  /\ req[w].pc = "ra" /\ req[w].handler = "challenge"
  /\ \E res \in RAResults, marshalOK \in BOOLEAN,
        n \in 0..Len(req[w].authz.challenges) :
       LET r == [req[w] EXCEPT !.raCalls = Append(@, "UpdateAuthorization"),
                                !.raErr = res]
           stored == UpdatedAuthz(r.authz, r.chall)
           updatedAuthz == ReturnedAuthz(stored, n)
       IN
       IF res # "ok"
         THEN /\ Emit(w, Done(r, sendError(r.resp, "Unable to update authorization",
                                           statusCodeFromError(res))))
              /\ UNCHANGED authzs
         ELSE /\ authzs' = [authzs EXCEPT ![r.authzID] = stored]
              /\ Emit(w,
                   IF r.chall \notin DOMAIN updatedAuthz.challenges
                     THEN Panic(r)
                   ELSE IF ~marshalOK
                     THEN Done(r, sendError(r.resp, "Failed to marshal challenge",
                                            StatusInternalServerError))
                   ELSE Done(r, [r.resp EXCEPT
                          !.location = [base |-> "Challenge",
                                        id |-> updatedAuthz.challenges[r.chall].uri],
                          !.ctype = "application/json",
                          !.status = StatusAccepted]))
  /\ UNCHANGED <<nonceIssued, nonceValid, regs, certs, passed, createdKey>>

\* -------------------------------------------------- RevokeCertificate
RevokeCertificate(w) == PostOnly(w, "RevokeCertificate")

\* the certificates a revocation request can carry: bytes that do not parse
\* (serial 0), or a certificate with a serial and a public key
SubmittedDERs == [serial : {0} \cup Serials, key : Keys]

\* verifyPOST(request, false)'s lookup, then the payload is parsed
RevokeCertificate_Lookup(w) ==
  /\ req[w].pc = "lookup" /\ req[w].handler = "RevokeCertificate"
  /\ \E jsonOK \in BOOLEAN, d \in SubmittedDERs :
       LET r == [req[w] EXCEPT !.verified = TRUE,
                               !.reg = GetRegistrationByKey(req[w].key)]
       IN
       Emit(w,
         IF ~jsonOK \/ d.serial = 0
           THEN Done(r, sendError(r.resp, "Unable to read/verify body", StatusBadRequest))
         ELSE [r EXCEPT !.pc = "getCert", !.der = d])
  /\ UNCHANGED <<nonceIssued, nonceValid, regs, authzs, certs, passed, createdKey>>

\* SA.GetCertificate(serial): the certificate stored under the serial, or
\* NoCert with an error
GetCertificate(serial) ==
  IF \E c \in DOMAIN certs : certs[c].serial = serial
    THEN certs[CHOOSE c \in DOMAIN certs : certs[c].serial = serial]
    ELSE NoCert

\* "err != nil || !bytes.Equal(cert.DER, revokeRequest.CertificateDER)"
NoSuchCertificate_SerialOnly(cert, der) == cert.serial = 0

NoSuchCertificate(cert, der) == cert.serial = 0 \/ DER(cert) # der

RevokeCertificate_GetCert(w) ==
  /\ req[w].pc = "getCert" /\ req[w].handler = "RevokeCertificate"
  /\ \E parseOK \in BOOLEAN :
       LET r == req[w]
           cert == GetCertificate(r.der.serial)
       IN
       Emit(w,
         IF NoSuchCertificate(cert, r.der)
           THEN Done(r, sendError(r.resp, "No such certificate", StatusNotFound))
         ELSE IF ~parseOK
           THEN Done(r, sendError(r.resp, "Invalid certificate", StatusInternalServerError))
         ELSE [r EXCEPT !.pc = "getStatus", !.cert = cert])
  /\ UNCHANGED <<nonceIssued, nonceValid, regs, authzs, certs, passed, createdKey>>

\* "core.KeyDigestEquals(requestKey, parsedCertificate.PublicKey) ||
\*  registration.ID == cert.RegistrationID"
MayRevoke_Anyone(requestKey, registration, cert) == TRUE

MayRevoke(requestKey, registration, cert) ==
  requestKey = cert.key \/ registration.id = cert.regID

\* the two checks between the status read and the RA call, in their order:
\* the status that refuses the request, 0 when it may go on to the RA
RevokeCheck_ForbiddenFirst(certStatus, requestKey, registration, cert) ==
  IF ~MayRevoke(requestKey, registration, cert) THEN StatusForbidden
  ELSE IF certStatus.revoked THEN StatusConflict
  ELSE 0

RevokeCheck(certStatus, requestKey, registration, cert) ==
  IF certStatus.revoked THEN StatusConflict
  ELSE IF ~MayRevoke(requestKey, registration, cert) THEN StatusForbidden
  ELSE 0

\* SA.GetCertificateStatus(serial), then the checks up to the RA call
RevokeCertificate_GetStatus(w) ==
  /\ req[w].pc = "getStatus"
  /\ \E statusOK \in BOOLEAN :
       LET r == req[w]
           certStatus == GetCertificate(r.der.serial)
           refused == RevokeCheck(certStatus, r.key, r.reg, r.cert)
       IN
       Emit(w,
         IF ~statusOK
           THEN Done(r, sendError(r.resp, "Certificate status not yet available",
                                  StatusNotFound))
         ELSE IF refused = StatusConflict
           THEN Done(r, sendError(r.resp, "Certificate already revoked", StatusConflict))
         ELSE IF refused = StatusForbidden
           THEN Done(r, sendError(r.resp, "Revocation request must be signed by private key of cert to be revoked",
                                  StatusForbidden))
         ELSE [r EXCEPT !.pc = "ra"])
  /\ UNCHANGED <<nonceIssued, nonceValid, regs, authzs, certs, passed, createdKey>>

\* RA.RevokeCertificate(cert): the RA marks the certificate revoked
RA_RevokeCertificate(serial) ==
  certs' = [c \in DOMAIN certs |->
             IF certs[c].serial = serial THEN [certs[c] EXCEPT !.revoked = TRUE]
             ELSE certs[c]]

RevokeCertificate_RA(w) ==
  /\ req[w].pc = "ra" /\ req[w].handler = "RevokeCertificate"
  /\ \E res \in RAResults :
       LET r == [req[w] EXCEPT !.raCalls = Append(@, "RevokeCertificate"),
                                !.raErr = res] IN
       IF res # "ok"
         THEN /\ Emit(w, Done(r, sendError(r.resp, "Failed to revoke certificate",
                                           statusCodeFromError(res))))
              /\ UNCHANGED certs
         ELSE /\ RA_RevokeCertificate(r.cert.serial)
              /\ Emit(w, Done(r, [r.resp EXCEPT !.status = StatusOK]))
  /\ UNCHANGED <<nonceIssued, nonceValid, regs, authzs, passed, createdKey>>

\* ------------------------------------------------------- specification
\* every handler, step by step, in one worker
Step(w) ==
    \/ Index(w)
    \/ Terms(w)
    \/ Issuer(w)
    \/ BuildID(w)
    \/ VerifyPOST(w)
    \/ NewRegistration(w)
    \/ NewRegistration_Lookup(w)
    \/ NewRegistration_CheckKey(w)
    \/ NewRegistration_RA(w)
    \/ Registration(w)
    \/ Registration_Lookup(w)
    \/ Registration_RA(w)
    \/ NewAuthorization(w)
    \/ NewAuthorization_Lookup(w)
    \/ NewAuthorization_RA(w)
    \/ NewCertificate(w)
    \/ NewCertificate_Lookup(w)
    \/ NewCertificate_RA(w)
    \/ Certificate(w)
    \/ Authorization(w)
    \/ Authorization_Get(w)
    \/ challenge_Lookup(w)
    \/ challenge_RA(w)
    \/ RevokeCertificate(w)
    \/ RevokeCertificate_Lookup(w)
    \/ RevokeCertificate_GetCert(w)
    \/ RevokeCertificate_GetStatus(w)
    \/ RevokeCertificate_RA(w)

\* Spec: the requests are handled one after the other
Next == Step("w1")

Spec == Init /\ [][Next]_vars

\* SpecConc: two workers handle requests at the same time, their steps
\* interleaved; the requests are GETs of the index page (a source of
\* nonces) and account creations
ConcStep(w) ==
    \/ Index(w)
    \/ VerifyPOST(w)
    \/ NewRegistration(w)
    \/ NewRegistration_Lookup(w)
    \/ NewRegistration_CheckKey(w)
    \/ NewRegistration_RA(w)

NextConc == \E w \in Workers : ConcStep(w)

SpecConc == Init /\ [][NextConc]_vars

\* SpecAuthzConc: two workers handle authorization creations at the same
\* time, their steps interleaved
AuthzConcStep(w) ==
    \/ VerifyPOST(w)
    \/ NewAuthorization(w)
    \/ NewAuthorization_Lookup(w)
    \/ NewAuthorization_RA(w)

NextAuthzConc == \E w \in Workers : AuthzConcStep(w)

SpecAuthzConc == Init /\ [][NextAuthzConc]_vars

\* SpecRevokeConc: two workers handle revocations at the same time, their
\* steps interleaved; GETs of the index page are the source of nonces
RevokeConcStep(w) ==
    \/ Index(w)
    \/ VerifyPOST(w)
    \/ RevokeCertificate(w)
    \/ RevokeCertificate_Lookup(w)
    \/ RevokeCertificate_GetCert(w)
    \/ RevokeCertificate_GetStatus(w)
    \/ RevokeCertificate_RA(w)

NextRevokeConc == \E w \in Workers : RevokeConcStep(w)

SpecRevokeConc == Init /\ [][NextRevokeConc]_vars

\* ------------------------------------------------------ OCSP updater
\* The updater's database holds one status row per certificate; a row is
\* stale when its last-updated time is before OldestLastUpdatedTime.
MaxOCSPCerts == 3
OCSPSerials == 1..MaxOCSPCerts
OldestLastUpdatedTime == 2
Now == OldestLastUpdatedTime + 1
\* the number of rows one run may select (the LIMIT of the query)
ResponseLimit == 2

\* the calls of one loop pass that can fail, in the order they are made
FailPoints == <<"begin", "get", "parse", "sign", "insert", "update", "commit">>
FailPointSet == {FailPoints[k] : k \in DOMAIN FailPoints}

Stale(db) == {s \in OCSPSerials : db.lastUpdated[s] < OldestLastUpdatedTime
                                  /\ s \notin db.expired}
Min2(a, b) == IF a < b THEN a ELSE b
\* the query: the stale rows of unexpired certificates, oldest first, at most
\* ResponseLimit of them (rows of equal age come in any order)
SelectStale(db) ==
  LET stale == Stale(db)
      n == Min2(ResponseLimit, Cardinality(stale))
  IN { q \in [1..n -> stale] :
         /\ \A a, b \in 1..n : a < b => /\ q[a] # q[b]
                                        /\ db.lastUpdated[q[a]] <= db.lastUpdated[q[b]]
         /\ \A s \in stale \ {q[k] : k \in 1..n} :
              \A k \in 1..n : db.lastUpdated[q[k]] <= db.lastUpdated[s] }

\* processResponse: what the transaction holds when the function returns,
\* and the error it returns; fail names the call that fails ("" : none)
processResponse(serial, fail) ==
  IF fail \in {"get", "parse", "sign", "insert"}
  THEN [err |-> fail, insert |-> {}, update |-> {}]
  ELSE IF fail = "update"
  THEN [err |-> fail, insert |-> {serial}, update |-> {}]
  ELSE [err |-> "", insert |-> {serial}, update |-> {serial}]

\* tx.Commit(): the transaction's writes reach the database together
Commit(db, tx) ==
  [db EXCEPT !.responses = @ \cup tx.insert,
             !.lastUpdated = [s \in OCSPSerials |->
                                IF s \in tx.update THEN Now ELSE @[s]]]
\* tx.Rollback(), and a transaction whose commit failed: none of them does
Rollback(db, tx) == db

InitOCSP ==
  /\ InitFrontEnd
  /\ \E lu \in [OCSPSerials -> 0..OldestLastUpdatedTime], ex \in SUBSET OCSPSerials :
       ocsp = [NoRun EXCEPT !.pc = "start", !.lastUpdated = lu, !.expired = ex]

\* findStaleResponses up to the loop: the query and its three outcomes
findStaleResponses_Select ==
  /\ ocsp.pc = "start"
  /\ UNCHANGED wfeVars
  /\ \E ok \in BOOLEAN :
       IF ~ok
       THEN ocsp' = [ocsp EXCEPT !.pc = "returned", !.err = "select"]
       ELSE \E q \in SelectStale(ocsp) :
              ocsp' = [ocsp EXCEPT !.selected = q,
                                   !.pc = IF Len(q) = 0 THEN "returned" ELSE "loop"]

\* one pass of the loop of findStaleResponses, for the row selected[i]
findStaleResponses_Pass ==
  /\ ocsp.pc = "loop"
  /\ UNCHANGED wfeVars
  /\ \E fail \in FailPointSet \cup {""}, nilPanics \in BOOLEAN :
       LET serial == ocsp.selected[ocsp.i]
           seen == [ocsp EXCEPT !.outcomes = Append(@, IF fail = "" THEN "ok" ELSE fail)]
           tx == processResponse(serial, fail)
           next == [seen EXCEPT !.i = @ + 1,
                                !.pc = IF ocsp.i = Len(ocsp.selected)
                                       THEN "returned" ELSE "loop"]
       IN IF fail = "begin"
          \* dbMap.Begin() failed: Rollback is called on the transaction it
          \* did not return, then the error is returned
          THEN ocsp' = [seen EXCEPT !.pc = IF nilPanics THEN "panicked" ELSE "returned",
                                    !.err = fail]
          ELSE /\ ~nilPanics
               /\ IF tx.err # ""
                  THEN ocsp' = [Rollback(seen, tx) EXCEPT !.pc = "returned", !.err = tx.err]
                  \* the result of tx.Commit() is dropped
                  ELSE IF fail = "commit"
                  THEN ocsp' = Rollback(next, tx)
                  ELSE ocsp' = Commit(next, tx)

NextOCSP == findStaleResponses_Select \/ findStaleResponses_Pass

\* SpecOCSP: one run of the OCSP updater over a database of its own
SpecOCSP == InitOCSP /\ [][NextOCSP]_vars

\* ------------------------------------------------------------- claims
InvalidNonce == "JWS has invalid anti-replay nonce"
RAOps == {"NewRegistration", "UpdateRegistration", "NewAuthorization",
          "UpdateAuthorization", "NewCertificate", "RevokeCertificate"}
Called(r, op) == \E i \in DOMAIN r.raCalls : r.raCalls[i] = op
\* the request reached verifyPOST
Posted(r) == r.env.err # "" \/ r.key # NoKey
\* the handlers that call verifyPOST with regCheck
RegCheck(h) == h \in {"Registration", "NewAuthorization", "NewCertificate", "challenge"}

\* C1: under every interleaving of two workers' requests, at most one request
\* passes verifyPOST's nonce check with a given nonce; the nonce it passed
\* with was issued by the registry, and is valid no more.
C1_NonceSingleUse ==
  \A n \in 1..JunkNonce :
    /\ passed[n] <= 1
    /\ passed[n] = 1 => n <= nonceIssued /\ n \notin nonceValid

\* a request fails the nonce check with the nonce that a request still being
\* handled by the other worker passed with
C1_Witness ==
  /\ sent.env.err = InvalidNonce
  /\ \E w \in Workers :
       /\ req[w].pc \notin {"idle", "verify"}
       /\ req[w].env.nonce = sent.env.nonce
       /\ passed[sent.env.nonce] = 1

\* C2: a validly signed request whose nonce an earlier request was accepted
\* with is answered 400 for its nonce, and no RA operation is called for it.
C2_Replay ==
  sent.env.replay =>
    /\ sent.resp.status = StatusBadRequest
    /\ sent.env.err = InvalidNonce
    /\ sent.raCalls = <<>>
    /\ ~sent.verified

C2_Witness ==
  /\ sent.env.replay
  /\ sent.env.oneSig /\ sent.env.sigOK
  /\ sent.resp.status = StatusBadRequest

\* C3 as claimed: for every request whose body is a signed envelope,
\* verifyPOST succeeds iff there is exactly one signature, it verifies, and
\* the nonce is valid.
C3_Original ==
  (Posted(sent) /\ sent.env.err \notin {"No body on POST", "Parse error reading JWS"}) =>
    (sent.verified <=> (sent.env.oneSig /\ sent.env.sigOK /\ sent.env.nonceOK))

\* C3 amended: ... iff there is exactly one signature, it verifies, the nonce
\* is valid and, where the handler asks for a known registration, the key
\* is bound to one.
C3_SignatureBinding ==
  (Posted(sent) /\ sent.env.err \notin {"No body on POST", "Parse error reading JWS"}) =>
    (sent.verified <=>
       /\ sent.env.oneSig /\ sent.env.sigOK /\ sent.env.nonceOK
       /\ RegCheck(sent.handler) => sent.reg.id # 0)

\* one signature that verifies and a valid nonce, and the verification fails:
\* the key is bound to no registration
C3_Witness ==
  /\ sent.handler = "NewAuthorization"
  /\ sent.env.oneSig /\ sent.env.sigOK /\ sent.env.nonceOK
  /\ ~sent.verified
  /\ sent.resp.status = StatusForbidden

\* C4: no RA operation is called for a request unless verifyPOST succeeded
\* for it.
C4_NoAuthorityWithoutVerify ==
  /\ sent.raCalls # <<>> => sent.verified /\ sent.env.err = ""
  /\ \A w \in Workers : req[w].pc = "ra" => req[w].verified

\* a request failed verification and was answered without an RA call, and a
\* request before it was verified and changed an account
C4_Witness ==
  /\ sent.env.err # "" /\ sent.raCalls = <<>>
  /\ regs # << [key |-> "k1", agreement |-> "cur"], [key |-> "k2", agreement |-> "cur"] >>

\* C5: the RA's RevokeCertificate is called only for a request whose verified
\* key is the certificate's key or whose signer's registration is the
\* certificate's; any other verified request for a stored certificate that is
\* not yet revoked, the request of a key bound to no registration included,
\* is answered 403 with no RA call, and the certificate stays unrevoked.
RevokeDecided(r) ==
  /\ r.handler = "RevokeCertificate" /\ r.verified /\ r.cert.serial # 0
  /\ r.resp.detail \notin {"Certificate status not yet available",
                           "Certificate already revoked"}

ForeignChallengePost(r) ==
  /\ r.handler = "challenge" /\ r.method = "POST" /\ r.verified
  /\ r.reg.id # 0 /\ r.reg.agreement # ""
  /\ r.reg.id # r.authz.regID

C6_ChallengeMismatch ==
  /\ \A w \in Workers :
       (req[w].pc = "ra" /\ req[w].handler = "challenge") =>
         req[w].reg.id = req[w].authz.regID
  /\ ForeignChallengePost(sent) =>
       /\ sent.resp.status = StatusForbidden
       /\ sent.raCalls = <<>>
       /\ authzs[sent.authzID] = sent.authz

C6_Witness ==
  /\ ForeignChallengePost(sent)
  /\ sent.chall # 0
  /\ sent.authz.regID = 1 /\ sent.reg.id = 2
  /\ sent.resp.status = StatusForbidden

\* C7 as claimed: UpdateRegistration is called only when the path id is a
\* positive integer equal to the signer's registration id, and a verified
\* request whose path id is an integer other than the signer's id is
\* answered 403 with no RA call.
PathIDMatches(r) ==
  r.pathID.ok /\ r.pathID.val > 0 /\ r.pathID.val = r.reg.id

C7_Original ==
  /\ Called(sent, "UpdateRegistration") => PathIDMatches(sent)
  /\ (sent.handler = "Registration" /\ sent.verified
        /\ sent.pathID.ok /\ sent.pathID.val # sent.reg.id) =>
       (sent.resp.status = StatusForbidden /\ sent.raCalls = <<>>)

\* C7 amended: UpdateRegistration is called only when the path id is a
\* positive integer equal to the signer's registration id; a verified request
\* whose path id is a positive integer other than the signer's id is answered
\* 403, one whose path id is not an integer or is not positive is answered
\* 400, and in both cases there is no RA call; with no RA call the signer's
\* stored registration is as it was read.
C7_PathID ==
  /\ Called(sent, "UpdateRegistration") => PathIDMatches(sent)
  /\ \A w \in Workers :
       (req[w].pc = "ra" /\ req[w].handler = "Registration") => PathIDMatches(req[w])
  /\ (sent.handler = "Registration" /\ sent.verified) =>
       /\ (sent.pathID.ok /\ sent.pathID.val > 0 /\ sent.pathID.val # sent.reg.id) =>
            (sent.resp.status = StatusForbidden /\ sent.raCalls = <<>>)
       /\ (~sent.pathID.ok \/ sent.pathID.val <= 0) =>
            (sent.resp.status = StatusBadRequest /\ sent.raCalls = <<>>)
       /\ sent.raCalls = <<>> =>
            regs[sent.reg.id] = [key |-> sent.reg.key, agreement |-> sent.reg.agreement]

\* the path names the registration of another key: 403
C7_Witness ==
  /\ sent.handler = "Registration" /\ sent.verified
  /\ sent.pathID.ok /\ sent.pathID.val \in DOMAIN regs
  /\ sent.pathID.val # sent.reg.id
  /\ sent.resp.status = StatusForbidden

\* C8: the update handed to the RA's UpdateRegistration has the key of the
\* signer's stored registration, whatever key the payload has, and every
\* registration's key is the key it was created with.
C8_KeyImmutability ==
  /\ \A id \in DOMAIN regs : regs[id].key = createdKey[id]
  /\ \A w \in Workers :
       (req[w].pc = "ra" /\ req[w].handler = "Registration") =>
         req[w].arg.key = req[w].reg.key
  /\ Called(sent, "UpdateRegistration") => sent.arg.key = sent.reg.key

\* an update whose payload has another key is accepted
C8_Witness ==
  /\ sent.handler = "Registration" /\ sent.resp.status = StatusAccepted
  /\ sent.payloadKey # sent.reg.key
  /\ regs[sent.reg.id].key = sent.reg.key

\* C9: a NewRegistration answered 201 was signed by a key bound to no
\* registration, has the Location and body of the new id, and that
\* registration has the signer's key; a verified NewRegistration signed by a
\* key that is bound to a registration is answered 409, with no RA call, and
\* the key stays bound to the registration it had.
C9_CreateThenConflict ==
  sent.handler = "NewRegistration" =>
    /\ sent.resp.status = StatusCreated =>
         /\ sent.reg.id = 0
         /\ Called(sent, "NewRegistration")
         /\ sent.resp.location = [base |-> "RegBase", id |-> Len(regs)]
         /\ sent.resp.bodyID = Len(regs)
         /\ regs[Len(regs)].key = sent.key
    /\ (sent.verified /\ sent.reg.id # 0) =>
         /\ sent.resp.status = StatusConflict
         /\ sent.raCalls = <<>>
         /\ GetRegistrationByKey(sent.key).id = sent.reg.id

\* the key of a registration that an earlier request created asks again
C9_Witness ==
  /\ sent.handler = "NewRegistration" /\ sent.resp.status = StatusConflict
  /\ sent.key = "k3" /\ sent.reg.id = 3
  /\ Len(regs) = 3 /\ createdKey[3] = "k3"

\* C10: NewAuthorization, UpdateAuthorization and NewCertificate are called
\* only for a signer whose key is bound to a registration with a non-empty
\* agreement; the request of a registration with an empty agreement is
\* answered 403 by NewAuthorization, challenge and NewCertificate with no RA
\* call; every stored authorization and certificate is of a registration
\* with a non-empty agreement.
LifecycleOps == {"NewAuthorization", "UpdateAuthorization", "NewCertificate"}

C10_AgreementFirst ==
  /\ \A op \in LifecycleOps :
       Called(sent, op) => (sent.reg.id # 0 /\ sent.reg.agreement # "")
  /\ \A w \in Workers :
       (req[w].pc = "ra" /\ req[w].handler \in {"NewAuthorization", "challenge", "NewCertificate"}) =>
         (req[w].reg.id # 0 /\ req[w].reg.agreement # "")
  /\ (sent.handler \in {"NewAuthorization", "challenge", "NewCertificate"}
        /\ sent.verified /\ sent.reg.id # 0 /\ sent.reg.agreement = "") =>
       (sent.resp.status = StatusForbidden /\ sent.raCalls = <<>>)
  /\ \A a \in DOMAIN authzs :
       authzs[a].regID \in DOMAIN regs /\ regs[authzs[a].regID].agreement # ""
  /\ \A c \in DOMAIN certs :
       certs[c].regID \in DOMAIN regs /\ regs[certs[c].regID].agreement # ""

\* a registration created without an agreement asks for an authorization
C10_Witness ==
  /\ sent.handler = "NewAuthorization" /\ sent.verified
  /\ sent.reg.id = 3 /\ sent.reg.agreement = ""
  /\ sent.resp.status = StatusForbidden

\* C11: a step of verifyPOST takes out of the valid nonces the nonce of the
\* request, and no other, exactly when the envelope had one signature that
\* verified and a nonce in its header; in every other case it leaves the valid
\* nonces as they are.  The lookup of the registration that follows leaves
\* them as they are, also when it fails: the nonce is not valid again.
After(w) == IF req'[w].pc = "idle" THEN sent' ELSE req'[w]

SignedWithNonce(env) == env.oneSig /\ env.sigOK /\ env.nonce # 0

C11_NonceConsumption ==
  [][\A w \in Workers :
       /\ (req[w].pc = "verify" /\ req'[w] # req[w]) =>
            nonceValid' = IF SignedWithNonce(After(w).env)
                            THEN nonceValid \ {After(w).env.nonce}
                            ELSE nonceValid
       /\ (req[w].pc = "lookup" /\ req'[w] # req[w]) =>
            /\ nonceValid' = nonceValid
            /\ req[w].env.nonce \notin nonceValid']_vars

\* the nonce was valid, the key has no registration: the request is refused
\* and its nonce is spent
C11_Witness ==
  /\ sent.resp.detail = "No registration exists matching provided key"
  /\ sent.env.nonceOK
  /\ sent.env.nonce \notin nonceValid
  /\ sent.env.nonce <= nonceIssued

\* C12: for every challenge POST answered 202, the index handed to the RA's
\* UpdateAuthorization is the index of the challenge whose URI matched the
\* request, the challenge sent back is the one at that index of the updated
\* authorization and is the challenge that was asked for, and the stored
\* authorization has the same challenges in the same order, the one at that
\* index answered and the others as they were.
ChallengeAnswered(r) ==
  /\ r.handler = "challenge" /\ r.method = "POST"
  /\ r.resp.status = StatusAccepted

C12_ChallengeIndexStability ==
  /\ \A w \in Workers :
       (req[w].handler = "challenge" /\ req[w].pc # "idle") =>
         /\ req[w].chall \in DOMAIN req[w].authz.challenges
         /\ req[w].authz.challenges[req[w].chall].uri = req[w].query
  /\ ChallengeAnswered(sent) =>
       LET i == sent.chall
           stored == authzs[sent.authzID].challenges
       IN
       /\ Called(sent, "UpdateAuthorization")
       /\ i \in DOMAIN sent.authz.challenges
       /\ sent.authz.challenges[i].uri = sent.query
       /\ \A j \in 1..(i - 1) : sent.authz.challenges[j].uri # sent.query
       /\ sent.resp.location = [base |-> "Challenge", id |-> sent.query]
       /\ Len(stored) = Len(sent.authz.challenges)
       /\ stored[i] = [uri |-> sent.query, status |-> "answered"]
       /\ \A j \in DOMAIN stored : j # i => stored[j] = sent.authz.challenges[j]

\* the second challenge of an authorization is answered
C12_Witness ==
  /\ ChallengeAnswered(sent)
  /\ sent.chall = 2 /\ sent.query = 2
  /\ authzs[sent.authzID].challenges[2].status = "answered"
  /\ authzs[sent.authzID].challenges[1].status = "pending"

\* C13 as claimed: for every certificate issued with serial S, the identifier
\* in the Location header is S without its low digits, in exactly ShortLen
\* lower-case hex characters, the path check of Certificate accepts it, and a
\* lookup by it finds the certificate (or, when another stored certificate
\* has the same identifier, reports that).
Issued(r) == r.handler = "NewCertificate" /\ r.resp.status = StatusCreated

C13_Original ==
  Issued(sent) =>
    LET S == sent.resp.bodyID
        short == sent.resp.shortSerial
        got == GetCertificateByShortSerial(short)
    IN
    /\ Len(short) = ShortLen /\ allHex(short)
    /\ short = ShortSerial_Truncated(S)
    /\ ~BadShortSerial(short)
    /\ got.err = "" => got.cert.serial = S
    /\ got.err # "" => MultipleRows(got.err)

\* C13 for the serials that have no more than LowDigits + ShortLen digits:
\* the identifier has exactly ShortLen characters, passes the path check and
\* finds the certificate or reports the ambiguity.
C13_WithinWidth ==
  (Issued(sent) /\ sent.resp.bodyID < 16^(ShortLen + LowDigits)) =>
    LET S == sent.resp.bodyID
        short == sent.resp.shortSerial
        got == GetCertificateByShortSerial(short)
    IN
    /\ short = ShortSerial_Truncated(S)
    /\ ~BadShortSerial(short)
    /\ got.err = "" => got.cert.serial = S
    /\ got.err # "" => MultipleRows(got.err)

\* a certificate is issued whose serial has that many digits that the
\* identifier in Location is wider than ShortLen, and the path check of
\* Certificate refuses it
C13_Witness ==
  /\ Issued(sent)
  /\ Len(sent.resp.shortSerial) > ShortLen
  /\ BadShortSerial(sent.resp.shortSerial)

\* C14: a GET of Certificate with a well-formed short serial is answered 409,
\* with no certificate in the body, when more than one stored certificate has
\* that short serial; 404 when none has; and with the one certificate that
\* has it otherwise.  A short serial that is not well formed is answered 404.
Sharing(shortSerial) ==
  {c \in DOMAIN certs : ShortSerial(certs[c].serial) = shortSerial}

CertificateRead(r) == r.handler = "Certificate" /\ r.method = "GET"

C14_AmbiguousShortSerial ==
  CertificateRead(sent) =>
    LET hits == Sharing(sent.certPath) IN
    IF BadShortSerial(sent.certPath)
      THEN sent.resp.status = StatusNotFound
    ELSE IF Cardinality(hits) > 1
      THEN sent.resp.status = StatusConflict /\ sent.resp.bodyID = 0
    ELSE IF hits = {}
      THEN sent.resp.status = StatusNotFound /\ sent.resp.bodyID = 0
    ELSE /\ sent.resp.status = StatusOK
         /\ \E c \in hits : sent.resp.bodyID = certs[c].serial

\* two stored certificates have the short serial that is asked for
C14_Witness ==
  /\ CertificateRead(sent)
  /\ Cardinality(Sharing(sent.certPath)) = 2
  /\ sent.resp.status = StatusConflict

\* C15: a verified RevokeCertificate request whose certificate parses is
\* answered 404 with no RA call, whoever signed it, when no certificate is
\* stored under the submitted serial or the stored certificate is not the
\* submitted one; the RA's RevokeCertificate is called only for a
\* certificate that is stored as submitted.
StoredAsSubmitted(der) ==
  \E c \in DOMAIN certs : certs[c].serial = der.serial /\ DER(certs[c]) = der

RevokeParsed(r) ==
  r.handler = "RevokeCertificate" /\ r.verified /\ r.der.serial # 0

C15_RevokeExactCertificate ==
  /\ (RevokeParsed(sent) /\ ~StoredAsSubmitted(sent.der)) =>
       /\ sent.resp.status = StatusNotFound
       /\ sent.resp.detail = "No such certificate"
       /\ sent.raCalls = <<>>
  /\ Called(sent, "RevokeCertificate") => StoredAsSubmitted(sent.der)
  /\ \A w \in Workers :
       (req[w].handler = "RevokeCertificate" /\ req[w].pc \in {"getStatus", "ra"}) =>
         StoredAsSubmitted(req[w].der)

\* the owner of a stored certificate submits a certificate with its serial
\* and another public key
C15_Witness ==
  /\ RevokeParsed(sent)
  /\ \E c \in DOMAIN certs :
       /\ certs[c].serial = sent.der.serial /\ certs[c].key # sent.der.key
       /\ certs[c].regID = sent.reg.id
  /\ sent.resp.status = StatusNotFound

\* C16: every response that is sent, whatever its handler and status, has the
\* CORS header "*" and a Replay-Nonce that was issued during its request, that
\* no response before it carried, and that is valid when the response is
\* sent; a request that is being handled has both headers from its first
\* step on, before a status is written.
StandardHeaders(resp) ==
  /\ resp.cors = "*"
  /\ resp.nonce \in 1..nonceIssued
  /\ resp.nonce \in nonceValid

HeadersSet ==
  /\ sent.pc = "done" => StandardHeaders(sent.resp)
  /\ \A w \in Workers :
       req[w].pc # "idle" =>
         (StandardHeaders(req[w].resp) /\ req[w].resp.nonce \notin delivered)

C16_StandardHeaders ==
  [][/\ HeadersSet'
     /\ sent'.pc = "done" =>
          /\ sent'.resp.nonce \notin delivered
          /\ sent'.resp.nonce > nonceIssued' - sent'.issued
     /\ \A w \in Workers :
          (req[w].pc = "idle" /\ req'[w].pc # "idle") => req'[w].resp.status = 0]_vars

\* a challenge that is not found: 404, with the second nonce of the request
C16_Witness ==
  /\ sent.resp.detail = "Unable to find challenge"
  /\ sent.issued = 2
  /\ sent.resp.nonce = nonceIssued
  /\ StandardHeaders(sent.resp)

\* C17 as claimed: a response with status 405 has in Allow exactly the methods
\* its endpoint permits, the method of the request is not one of them, and
\* the request got to no verifyPOST and no RA call; a request with a method
\* that its endpoint's Allow lists is not answered 405.
Permitted(handler) ==
  IF handler \in {"Index", "Terms", "Issuer", "BuildID"} THEN {"GET"}
  ELSE IF handler \in {"Authorization", "challenge", "Certificate"} THEN {"GET", "POST"}
  ELSE {"POST"}

C17_Original ==
  sent.pc = "done" =>
    /\ sent.resp.status = StatusMethodNotAllowed =>
         /\ sent.resp.allow = Permitted(sent.handler)
         /\ sent.method \notin sent.resp.allow
         /\ ~Posted(sent) /\ sent.raCalls = <<>>
    /\ sent.method \in Permitted(sent.handler) =>
         sent.resp.status # StatusMethodNotAllowed

\* C17 but for the POST of an authorization without a query
AuthorizationPost(r) ==
  r.handler = "Authorization" /\ r.method = "POST" /\ r.authzID # 0

C17_ExceptAuthorizationPost ==
  (sent.pc = "done" /\ ~AuthorizationPost(sent)) =>
    /\ sent.resp.status = StatusMethodNotAllowed =>
         /\ sent.resp.allow = Permitted(sent.handler)
         /\ sent.method \notin sent.resp.allow
         /\ ~Posted(sent) /\ sent.raCalls = <<>>
    /\ sent.method \in Permitted(sent.handler) =>
         sent.resp.status # StatusMethodNotAllowed

\* a POST of a stored authorization, without a query: 405, and Allow has POST
C17_Witness ==
  /\ AuthorizationPost(sent)
  /\ sent.resp.status = StatusMethodNotAllowed
  /\ "POST" \in sent.resp.allow

\* ---------------------------------------------------------------- C18
\* an error response: a finished request answered with a status of 400 or more
ErrorSent == sent.pc = "done" /\ sent.resp.status >= StatusBadRequest

\* NewCertificate could not parse the certificate the RA just issued
ParseFailed(r) ==
  /\ r.handler = "NewCertificate" /\ r.cert.serial # 0
  /\ r.resp.status # StatusCreated

\* C18: the problem type of every error response follows from its status:
\* malformed for 400, 404, 405 and 409, unauthorized for 403, server-internal
\* for every other status (501 and 412 included) and for the failure to parse
\* or marshal a resource that was just created.
C18_Original ==
  (ErrorSent /\ sent.resp.ctype = "application/problem+json") =>
    /\ sent.resp.status \in {StatusBadRequest, StatusNotFound,
                             StatusMethodNotAllowed, StatusConflict} =>
         (sent.resp.ptype = MalformedProblem \/ ParseFailed(sent))
    /\ sent.resp.status = StatusForbidden =>
         sent.resp.ptype = UnauthorizedProblem
    /\ sent.resp.status \notin {StatusBadRequest, StatusNotFound,
                                StatusMethodNotAllowed, StatusConflict,
                                StatusForbidden} =>
         sent.resp.ptype = ServerInternalProblem
    /\ ParseFailed(sent) => sent.resp.ptype = ServerInternalProblem

\* C18 for the statuses the switch of sendError names: 400, 404, 405 and 409
\* are malformed, 403 is unauthorized, 500 is server-internal; 501 and 412
\* have an empty type.
C18_NamedStatuses ==
  (ErrorSent /\ sent.resp.ctype = "application/problem+json") =>
    /\ sent.resp.status \in {StatusBadRequest, StatusNotFound,
                             StatusMethodNotAllowed, StatusConflict} =>
         sent.resp.ptype = MalformedProblem
    /\ sent.resp.status = StatusForbidden =>
         sent.resp.ptype = UnauthorizedProblem
    /\ sent.resp.status = StatusInternalServerError =>
         sent.resp.ptype = ServerInternalProblem
    /\ sent.resp.status \in {StatusNotImplemented, StatusPreconditionFailed} =>
         sent.resp.ptype = ""

\* the RA refused with NotSupportedError: a 501 whose problem has no type
C18_Witness ==
  /\ ErrorSent /\ sent.resp.status = StatusNotImplemented
  /\ sent.resp.ctype = "application/problem+json"
  /\ sent.resp.ptype = ""

\* the certificate was issued and stored, its parse failed: 400, malformed
C18_ParseFailure ==
  /\ ErrorSent /\ ParseFailed(sent)
  /\ sent.resp.status = StatusBadRequest
  /\ sent.resp.ptype = MalformedProblem

\* ---------------------------------------------------------------- C19
\* a finished request answered with a status outside 200..299
Non2xx(r) ==
  r.pc = "done" /\ (r.resp.status < StatusOK \/ r.resp.status >= 300)

\* C19: every response with a status outside 2xx, the index handler's answer
\* to an unknown path included, is a problem document: its content type is
\* application/problem+json and it has a type and a detail; it is never
\* plain text.
C19_Original ==
  Non2xx(sent) =>
    /\ sent.resp.ctype = "application/problem+json"
    /\ sent.resp.ptype # ""
    /\ sent.resp.detail # ""

\* C19 for every handler but Index: a response outside 2xx is a problem
\* document with a detail, and with a type unless its status is 501 or 412
C19_ExceptIndex ==
  (Non2xx(sent) /\ sent.handler # "Index") =>
    /\ sent.resp.ctype = "application/problem+json"
    /\ sent.resp.detail # ""
    /\ sent.resp.status \notin {StatusNotImplemented, StatusPreconditionFailed} =>
         sent.resp.ptype # ""

\* Index was asked for a path other than the root: 404 as plain text
C19_Witness ==
  /\ Non2xx(sent) /\ sent.handler = "Index"
  /\ sent.resp.status = StatusNotFound
  /\ sent.resp.ctype = "text/plain"
  /\ sent.resp.ptype = ""

\* ---------------------------------------------------------------- C20
\* C20: an audit record is written for an error response only when its
\* problem type is server-internal; a response with status 400, 403, 404, 405
\* or 409 never writes one, whatever requests came before.
C20_AuditOnlyInternal ==
  sent.pc = "done" =>
    /\ sent.resp.audit => sent.resp.ptype = ServerInternalProblem
    /\ sent.resp.status \in {StatusBadRequest, StatusForbidden, StatusNotFound,
                             StatusMethodNotAllowed, StatusConflict} =>
         ~sent.resp.audit

\* both cases were sent: here a 500 with its audit record, after an earlier
\* request in the same behaviour (its nonce is not the first)
C20_Witness ==
  /\ sent.pc = "done" /\ sent.resp.audit
  /\ sent.resp.status = StatusInternalServerError
  /\ sent.resp.ptype = ServerInternalProblem
  /\ nonceIssued > 1

\* ---------------------------------------------------------------- C21
\* the RA was called and returned an error
RAFailed(r) == r.raCalls # <<>> /\ r.raErr # "ok"

\* the status the taxonomy gives an error kind
MappedStatus(kind) ==
  CASE kind = "MalformedRequestError" -> StatusBadRequest
    [] kind = "NotSupportedError" -> StatusNotImplemented
    [] kind = "SyntaxError" -> StatusBadRequest
    [] kind = "UnauthorizedError" -> StatusForbidden
    [] kind = "NotFoundError" -> StatusNotFound
    [] kind = "SignatureValidationError" -> StatusPreconditionFailed
    [] OTHER -> StatusInternalServerError

\* the envelope's one signature did not verify
SignatureFailed(r) == r.env.err = "JWS verification error"

\* C21: the mapping from error kind to status is total and every failure of
\* the RA is answered with the mapped status of its kind; a request whose
\* signature fails verification is answered with 412 precondition failed.
C21_Original ==
  sent.pc = "done" =>
    /\ RAFailed(sent) => sent.resp.status = MappedStatus(sent.raErr)
    /\ SignatureFailed(sent) => sent.resp.status = StatusPreconditionFailed

\* C21 for the failures of the RA alone
C21_AuthorityFailures ==
  (sent.pc = "done" /\ RAFailed(sent)) =>
    sent.resp.status = MappedStatus(sent.raErr)

\* a POST whose signature does not verify is answered 400
C21_Witness ==
  /\ sent.pc = "done" /\ SignatureFailed(sent)
  /\ sent.resp.status = StatusBadRequest
  /\ sent.resp.detail = "Unable to read/verify body"

\* the RA fails with SignatureValidationError: that is answered 412
C21_MappedWitness ==
  /\ sent.pc = "done" /\ RAFailed(sent)
  /\ sent.raErr = "SignatureValidationError"
  /\ sent.resp.status = StatusPreconditionFailed

\* ---------------------------------------------------------------- C22
\* verifyPOST returned an error to the handler, and the step it failed at
VerifyFailure(r) == r.pc = "done" /\ Posted(r) /\ ~r.verified

FailedStep(r) == IF r.env.err # "" THEN r.env.err ELSE "unknown account"

SameAnswer(r1, r2) ==
  r1.resp.status = r2.resp.status /\ r1.resp.detail = r2.resp.detail

\* C22: two requests to the same handler that fail verification at different
\* steps (no body, malformed envelope, signature count, bad signature, missing
\* nonce, invalid nonce, unknown account) get the same status and the same
\* detail.  Here the two are answered one right after the other.
C22_Original ==
  [][(/\ VerifyFailure(sent) /\ VerifyFailure(sent')
      /\ sent.handler = sent'.handler
      /\ FailedStep(sent) # FailedStep(sent'))
     => SameAnswer(sent, sent')]_vars

\* C22 for the steps before the account lookup
C22_ExceptUnknownAccount ==
  [][(/\ VerifyFailure(sent) /\ VerifyFailure(sent')
      /\ sent.handler = sent'.handler
      /\ FailedStep(sent) # FailedStep(sent')
      /\ "unknown account" \notin {FailedStep(sent), FailedStep(sent')})
     => SameAnswer(sent, sent')]_vars

\* a verified envelope whose key has no registration: 403, with a detail
\* that names the step
C22_Witness ==
  /\ VerifyFailure(sent) /\ sent.handler = "NewAuthorization"
  /\ FailedStep(sent) = "unknown account"
  /\ sent.resp.status = StatusForbidden
  /\ sent.resp.detail = "No registration exists matching provided key"

\* ---------------------------------------------------------------- C23
AccountHandlers == {"NewRegistration", "Registration"}

\* the handler parsed a registration whose agreement is not empty and is not
\* the current agreement URL
StaleAgreement(r) ==
  r.handler \in AccountHandlers /\ AgreementMismatch(r.arg.agreement)

\* C23: the RA never gets, from NewRegistration or Registration, a
\* registration whose agreement is non-empty and differs from the current
\* agreement URL; the request that carries one is answered 400, the RA is not
\* called for it and no registration is created or changed.
C23_AgreementGate ==
  [][/\ \A op \in {"NewRegistration", "UpdateRegistration"} :
          Called(sent', op) => sent'.arg.agreement \in {"", SubscriberAgreementURL}
     /\ \A w \in Workers :
          (req'[w].pc = "ra" /\ req'[w].handler \in AccountHandlers) =>
            req'[w].arg.agreement \in {"", SubscriberAgreementURL}
     /\ (sent'.pc = "done" /\ StaleAgreement(sent')) =>
          /\ sent'.resp.status = StatusBadRequest
          /\ sent'.raCalls = <<>>
          /\ regs' = regs]_vars

\* an account update with another agreement than the current one was refused
C23_Witness ==
  /\ sent.pc = "done" /\ sent.handler = "Registration"
  /\ sent.arg.agreement = "old"
  /\ sent.resp.status = StatusBadRequest

\* ---------------------------------------------------------------- C24
\* the response carries an authorization in its body
AuthzCreated(r) ==
  /\ r.pc = "done" /\ r.handler = "NewAuthorization"
  /\ r.resp.status = StatusCreated

AuthzRead(r) ==
  /\ r.pc = "done" /\ r.handler = "Authorization"
  /\ r.resp.status = StatusOK

\* C24: the authorization in the body of NewAuthorization's response and of
\* a plain GET of an authorization has its ID and its RegistrationID blanked;
\* the ID is in the Location of the create response; the stored authorization
\* keeps both.
C24_BlankedBody ==
  [][/\ (AuthzCreated(sent') \/ AuthzRead(sent')) =>
          sent'.resp.bodyID = 0 /\ sent'.resp.bodyRegID = 0
     /\ AuthzCreated(sent') =>
          /\ sent'.resp.location = [base |-> "AuthzBase", id |-> Len(authzs')]
          /\ Len(authzs') = Len(authzs) + 1
          /\ authzs'[Len(authzs')].regID = sent'.reg.id
          /\ sent'.reg.id # 0
          /\ \A a \in DOMAIN authzs : authzs'[a] = authzs[a]
     /\ AuthzRead(sent') =>
          /\ authzs' = authzs
          /\ authzs[sent'.authzID] = sent'.authz
          /\ sent'.authz.regID # 0]_vars

\* an authorization was created and its body sent
C24_Witness ==
  /\ AuthzCreated(sent)
  /\ sent.resp.location.id = Len(authzs)
  /\ sent.resp.bodyID = 0
  /\ authzs[Len(authzs)].regID = sent.reg.id

\* a stored authorization was read with a plain GET
C24_ReadWitness ==
  /\ AuthzRead(sent) /\ sent.resp.bodyRegID = 0
  /\ authzs[sent.authzID].regID # 0

\* ---------------------------------------------------------------- C25
\* the worker's NewRegistration request is past every check: its next step
\* is the call of RA.NewRegistration with a draft for key k
AboutToCreate(w, k) ==
  req[w].pc = "ra" /\ req[w].handler = "NewRegistration" /\ req[w].arg.key = k

\* C25: however NewRegistration requests signed with the same unbound key
\* interleave, RA.NewRegistration is called for at most one of them: no two
\* requests are both about to call it for the key, none is about to call it
\* for a key it was already called for, and no key was registered twice.
C25_Original ==
  \A k \in Keys :
    /\ Cardinality({w \in Workers : AboutToCreate(w, k)}) <= 1
    /\ Cardinality({i \in DOMAIN createdKey : createdKey[i] = k}) <= 1
    /\ (\E w \in Workers : AboutToCreate(w, k)) =>
         \A i \in DOMAIN createdKey : createdKey[i] # k

\* two requests signed with the same key both passed the key check
C25_Witness ==
  \E k \in Keys :
    /\ \A w \in Workers : AboutToCreate(w, k)
    /\ \A id \in DOMAIN regs : regs[id].key # k

\* the RA was called twice for the same key and stored two registrations
C25_TwoAccounts ==
  \E i, j \in DOMAIN regs :
    i < j /\ regs[i].key = regs[j].key /\ createdKey[i] = createdKey[j]

\* ---------------------------------------------------------------- C26
\* the worker's RevokeCertificate request is past every check: its next step
\* is the call of RA.RevokeCertificate for the certificate with this serial
AboutToRevoke(w, serial) ==
  /\ req[w].pc = "ra" /\ req[w].handler = "RevokeCertificate"
  /\ req[w].cert.serial = serial

\* C26: however authorized RevokeCertificate requests for one certificate
\* interleave, RA.RevokeCertificate is called at most once for it: no two
\* requests are both about to call it for the certificate, and none is about
\* to call it for a certificate that is revoked already.
C26_Original ==
  \A serial \in Serials :
    /\ Cardinality({w \in Workers : AboutToRevoke(w, serial)}) <= 1
    /\ (\E w \in Workers : AboutToRevoke(w, serial)) =>
         ~GetCertificate(serial).revoked

\* two requests for the same certificate both passed the status check
C26_Witness ==
  \E serial \in Serials : \A w \in Workers : AboutToRevoke(w, serial)

\* one of them has revoked the certificate, the other still calls the RA
C26_SecondCall ==
  \E serial \in Serials, w \in Workers :
    /\ AboutToRevoke(w, serial) /\ GetCertificate(serial).revoked
    /\ sent.handler = "RevokeCertificate" /\ sent.resp.status = StatusOK
    /\ sent.cert.serial = serial

\* ---------------------------------------------------------------- C27
\* the requester is neither the holder of the certificate's key nor the
\* registration that owns the certificate
Unauthorized(r) ==
  r.key # r.cert.key /\ r.reg.id # r.cert.regID

\* C27: RevokeCertificate decides in this order: 404 for an unknown serial,
\* a DER that differs from the stored one or a status that cannot be read,
\* then 409 for a certificate already revoked, then 403 for a requester who
\* is neither key holder nor owner, then the call of the RA.  So the RA is
\* not called for a certificate that the status check read as revoked, and
\* an unauthorized requester of a revoked certificate gets 409, not 403.
C27_RevokeOrder ==
  [][\A w \in Workers :
       /\ (req[w].pc = "getCert" /\ req'[w] # req[w]) =>
            LET stored == GetCertificate(req[w].der.serial) IN
            /\ (stored.serial = 0 \/ DER(stored) # req[w].der) =>
                 /\ After(w).pc = "done"
                 /\ After(w).resp.status = StatusNotFound
            /\ After(w).pc = "getStatus" => DER(stored) = req[w].der
       /\ (req[w].pc = "getStatus" /\ req'[w] # req[w]) =>
            LET stored == GetCertificate(req[w].cert.serial)
                a == After(w)
            IN
            /\ stored.revoked =>
                 /\ a.pc = "done"
                 /\ a.resp.status \in {StatusNotFound, StatusConflict}
                 /\ a.resp.status # StatusForbidden
            /\ (~stored.revoked /\ Unauthorized(req[w])) =>
                 /\ a.pc = "done"
                 /\ a.resp.status \in {StatusNotFound, StatusForbidden}
            /\ a.pc = "ra" => (~stored.revoked /\ ~Unauthorized(req[w]))
            /\ a.pc = "done" => a.raCalls = <<>> /\ certs' = certs]_vars

\* a requester who is neither key holder nor owner asked for the revocation
\* of a certificate that an earlier request had revoked: 409
C27_Witness ==
  /\ sent.pc = "done" /\ sent.handler = "RevokeCertificate"
  /\ sent.cert.serial # 0 /\ Unauthorized(sent)
  /\ GetCertificate(sent.cert.serial).revoked
  /\ sent.resp.status = StatusConflict

\* ---------------------------------------------------------------- C28
\* C28: a GET or POST to an authorization's URL with a query is a challenge
\* request: the authorization is looked up first, 404 when there is none;
\* then the challenge whose URI has the request's path and query, 404 when no
\* challenge has; a POST so refused was not verified, consumed no nonce and
\* reached no RA call.  Verification starts only with a challenge found.
C28_ChallengeRouting ==
  [][\A w \in Workers :
       (req[w].pc = "getAuthz" /\ req'[w] # req[w] /\ After(w).query # 0) =>
         LET a == After(w) IN
         /\ a.authzID = 0 =>
              /\ a.pc = "done" /\ a.resp.status = StatusNotFound
              /\ a.resp.detail = "Unable to find authorization"
              /\ a.chall = 0
         /\ (a.authzID # 0 /\ a.chall = 0) =>
              /\ a.pc = "done" /\ a.resp.status = StatusNotFound
              /\ a.resp.detail = "Unable to find challenge"
              /\ \A i \in DOMAIN a.authz.challenges :
                   a.authz.challenges[i].uri # a.query \/ a.chall # i
         /\ a.chall # 0 =>
              /\ a.authzID \in DOMAIN authzs /\ a.authz = authzs[a.authzID]
              /\ a.authz.challenges[a.chall].uri = a.query
         /\ a.pc = "verify" => (a.method = "POST" /\ a.chall # 0)
         /\ a.pc = "done" =>
              /\ ~Posted(a) /\ a.raCalls = <<>>
              /\ nonceValid \subseteq nonceValid'
              /\ authzs' = authzs]_vars

\* a POST to a stored authorization with a query that none of its
\* challenges has: 404, nothing verified
C28_Witness ==
  /\ sent.pc = "done" /\ sent.handler = "Authorization" /\ sent.method = "POST"
  /\ sent.authzID # 0 /\ sent.query # 0 /\ sent.chall = 0
  /\ sent.resp.status = StatusNotFound
  /\ sent.resp.detail = "Unable to find challenge"
  /\ ~Posted(sent)

\* ---------------------------------------------------------------- C29
\* C29: the draft NewRegistration hands to RA.NewRegistration has the key
\* that verified the request's signature, whatever key the payload names; a
\* registration is never created with another key than the one that signed
\* its creation request.
C29_DraftKey ==
  [][/\ \A w \in Workers :
          (req'[w].pc = "ra" /\ req'[w].handler = "NewRegistration") =>
            /\ req'[w].verified /\ req'[w].env.sigOK
            /\ req'[w].arg.key = req'[w].key
     /\ Called(sent', "NewRegistration") =>
          /\ sent'.arg.key = sent'.key /\ sent'.key \in Keys
          /\ Len(regs') > Len(regs) =>
               /\ regs'[Len(regs')].key = sent'.key
               /\ createdKey'[Len(regs')] = sent'.key]_vars

\* an account was created by a request whose payload names another key than
\* the one that signed it; the account has the signer's key
C29_Witness ==
  /\ Called(sent, "NewRegistration") /\ sent.resp.status = StatusCreated
  /\ sent.payloadKey # sent.key
  /\ regs[sent.resp.location.id].key = sent.key

\* ---------------------------------------------------------------- C30
AllIdle == \A w \in Workers : req[w].pc = "idle"

\* C30: every handled request issues exactly one nonce, and every nonce the
\* registry issues is delivered in the Replay-Nonce header of a response,
\* none being issued and then overwritten before it is sent; so too for a
\* challenge request, which comes in through the authorization handler.
C30_Original ==
  /\ sent.pc = "done" => sent.issued = 1
  /\ AllIdle => \A n \in 1..nonceIssued : n \in delivered

\* C30 for every request but a challenge request
ChallengeRequest(r) ==
  r.handler \in {"Authorization", "challenge"} /\ r.authzID # 0 /\ r.query # 0

C30_ExceptChallenge ==
  (sent.pc = "done" /\ ~ChallengeRequest(sent)) =>
    /\ sent.issued = 1
    /\ sent.resp.nonce = nonceIssued
    /\ sent.resp.nonce \in delivered

\* a challenge request was answered: two nonces were issued for it, the
\* response has the second, the first is valid and no client ever got it
C30_Witness ==
  /\ sent.pc = "done" /\ ChallengeRequest(sent)
  /\ sent.issued = 2
  /\ sent.resp.nonce = nonceIssued
  /\ (nonceIssued - 1) \in nonceValid
  /\ (nonceIssued - 1) \notin delivered

\* ---------------------------------------------------------------- C31
\* how far a request has got in its handler
Rank(pc) ==
  CASE pc = "idle" -> 0
    [] pc = "getAuthz" -> 1
    [] pc = "verify" -> 2
    [] pc = "lookup" -> 3
    [] pc \in {"checkKey", "getCert"} -> 4
    [] pc = "getStatus" -> 5
    [] pc = "ra" -> 6
    [] OTHER -> 7

\* C31: every request ends with exactly one response status whatever the SA
\* and the RA return, also when UpdateAuthorization returns an authorization
\* with fewer challenges than the index that was answered; a step goes on or
\* returns, and none is taken twice.
C31_Original ==
  /\ \A w \in Workers : req[w].pc # "panic"
  /\ sent.pc = "done" => sent.resp.status # 0
  /\ \A w \in Workers : Len(req[w].raCalls) <= 1
  /\ Len(sent.raCalls) <= 1

\* C31 without the end of a request: a step of a request takes it further in
\* its handler or ends it, the RA is called at most once for it, and a
\* response that was sent has one status
C31_NoRetry ==
  [][/\ \A w \in Workers :
          (req'[w] # req[w] /\ req[w].pc # "idle") =>
            /\ Rank(After(w).pc) > Rank(req[w].pc)
            /\ Len(After(w).raCalls) <= 1
            /\ Len(After(w).raCalls) >= Len(req[w].raCalls)
     /\ sent'.pc = "done" => sent'.resp.status # 0]_vars

\* the RA updated the authorization and returned fewer challenges than the
\* answered index: the handler has stopped with no response
C31_Witness ==
  \E w \in Workers :
    /\ req[w].pc = "panic" /\ req[w].handler = "challenge"
    /\ req[w].raCalls = <<"UpdateAuthorization">> /\ req[w].raErr = "ok"
    /\ req[w].resp.status = 0
    /\ req[w].resp.nonce \notin delivered
    /\ authzs[req[w].authzID].challenges[req[w].chall].status = "answered"

\* ---- C32
Committed(s) == s \in ocsp.responses /\ ocsp.lastUpdated[s] = Now
Untouched(s) == s \notin ocsp.responses /\ ocsp.lastUpdated[s] < OldestLastUpdatedTime
Processed == Len(ocsp.outcomes)
\* the rows are taken in the order selected, a response is stored exactly
\* with its row's new time, and the rows not yet reached are untouched
InOrderAndAtomic ==
  /\ Processed \in {ocsp.i - 1, ocsp.i}
  /\ Processed <= Len(ocsp.selected)
  /\ \A s \in DOMAIN ocsp.lastUpdated : Committed(s) \/ Untouched(s)
                                        \/ (s \notin ocsp.responses /\ s \notin Stale(ocsp))
  /\ \A k \in DOMAIN ocsp.selected : k > Processed => Untouched(ocsp.selected[k])
\* pass k failed at one of the calls in calls: the run stopped there, the
\* rows before k are committed, row k and the rows after it are untouched
StopsAt(k) ==
  /\ ocsp.pc \in {"returned", "panicked"}
  /\ Processed = k
  /\ \A j \in DOMAIN ocsp.selected : IF j < k THEN Committed(ocsp.selected[j])
                                               ELSE Untouched(ocsp.selected[j])

\* C32: findStaleResponses processes the selected stale certificate statuses
\* in order, each in its own transaction: the new response is inserted and
\* the last-updated time advanced together or not at all, and at the first
\* failure that transaction is rolled back and the run stops, leaving all
\* earlier serials committed and all later serials untouched.
C32_Original ==
  /\ InOrderAndAtomic
  /\ \A k \in DOMAIN ocsp.outcomes : ocsp.outcomes[k] # "ok" => StopsAt(k)

\* C32 for every failure but that of the commit: a pass that failed leaves
\* its row untouched and, unless it was the commit that failed, stops the
\* run; in a run where no commit fails the first failure stops it with the
\* earlier rows committed and the later ones untouched
C32_ExceptCommit ==
  /\ InOrderAndAtomic
  /\ \A k \in DOMAIN ocsp.outcomes :
       /\ ocsp.outcomes[k] \notin {"ok", "commit"} =>
            ocsp.pc \in {"returned", "panicked"} /\ Processed = k
       /\ IF ocsp.outcomes[k] = "ok" THEN Committed(ocsp.selected[k])
                                     ELSE Untouched(ocsp.selected[k])
  /\ (\A k \in DOMAIN ocsp.outcomes : ocsp.outcomes[k] # "commit") =>
       \A k \in DOMAIN ocsp.outcomes : ocsp.outcomes[k] # "ok" => StopsAt(k)

\* the update of the second row failed after its insert: the run has
\* stopped, the first row is committed and the second has no response
C32_Witness ==
  /\ ocsp.pc = "returned" /\ ocsp.err = "update"
  /\ ocsp.outcomes = <<"ok", "update">>
  /\ Committed(ocsp.selected[1]) /\ Untouched(ocsp.selected[2])

\* the commit of the first row failed and the run went on: the second row
\* is committed, the first is not, and the run returned no error
C32_CommitFailure ==
  /\ ocsp.pc = "returned" /\ ocsp.err = ""
  /\ ocsp.outcomes = <<"commit", "ok">>
  /\ Untouched(ocsp.selected[1]) /\ Committed(ocsp.selected[2])

====
